---- MODULE Spec2Model ----
(***************************************************************************)
(* Model of Modules/getpath.c: the computation of the path configuration   *)
(* (program_full_path, prefix, exec_prefix, module_search_path) done by    *)
(* _PyPathConfig_Calculate.                                                *)
(*                                                                         *)
(* A wide-character string is a sequence of one-character strings; the     *)
(* terminating NUL is implicit.  A NULL pointer is the value NULL.  The    *)
(* file system, the environment and the build-time macros are inputs       *)
(* chosen in Init; every file-system query the code makes is appended to   *)
(* the history variable log.                                               *)
(***************************************************************************)
EXTENDS Integers, Sequences, FiniteSets, TLC

(***************************************************************************)
(* Characters and literals of the source.                                  *)
(***************************************************************************)
SEP == "/"
DELIM == ":"
NULL == <<"NULL">>
EMPTY == <<>>

\* size of the path buffers is MAXPATHLEN+1 (osdefs.h: 4096 on the real
\* build; a small value here so that over-long paths occur)
MAXPATHLEN == 44

separator == <<SEP>>
delimiter == <<DELIM>>
LANDMARK == <<"o","s",".","p","y">>
VERSION == <<"3",".","9">>
LibPythonLiteral == <<"l","i","b","/","p","y","t","h","o","n">>
S_SetupLocal == <<"M","o","d","u","l","e","s","/","S","e","t","u","p",".","l","o","c","a","l">>
S_Lib == <<"L","i","b">>
S_pybuilddir_txt == <<"p","y","b","u","i","l","d","d","i","r",".","t","x","t">>
S_lib_dynload == <<"l","i","b","-","d","y","n","l","o","a","d">>
S_lib_lib_dynload == <<"l","i","b","/","l","i","b","-","d","y","n","l","o","a","d">>
S_pyvenv_cfg == <<"p","y","v","e","n","v",".","c","f","g">>
S_zip00 == <<"l","i","b","/","p","y","t","h","o","n","0","0",".","z","i","p">>
S_c == <<"c">>

(***************************************************************************)
(* Helpers on sequences.                                                   *)
(***************************************************************************)
Max(S) == CHOOSE x \in S : \A y \in S : y <= x
Min(S) == CHOOSE x \in S : \A y \in S : x <= y
Take(s, n) == SubSeq(s, 1, n)
Drop(s, n) == SubSeq(s, n + 1, Len(s))
\* wcschr(s, c): index of the first c in s, 0 for a NULL result
wcschr(s, c) ==
    LET I == {i \in 1..Len(s) : s[i] = c}
    IN  IF I = {} THEN 0 ELSE Min(I)
\* fileutils.c: _Py_isabs(path) is path[0] == SEP
_Py_isabs(path) == Len(path) > 0 /\ path[1] = SEP

Ok(st) == st = "ok"

(***************************************************************************)
(* reduce(dir): cut dir at its last separator; a separator at index 0 is   *)
(* not looked at (the loop stops at i = 0), so "/usr" becomes "".          *)
(***************************************************************************)
\* a variant that keeps the separator an absolute path begins with
reduce_keeps_root(dir) ==
    LET I == {i \in 1..(Len(dir) - 1) : dir[i + 1] = SEP}
    IN  IF I # {} THEN Take(dir, Max(I))
        ELSE IF dir # EMPTY /\ dir[1] = SEP THEN separator
        ELSE EMPTY

reduce(dir) ==
    LET I == {i \in 1..(Len(dir) - 1) : dir[i + 1] = SEP}
    IN  IF I = {} THEN EMPTY ELSE Take(dir, Max(I))

(***************************************************************************)
(* joinpath(path, path2, path_len): [status, path].  On a length error the *)
(* buffer keeps what was written before the check failed.                  *)
(***************************************************************************)
\* variant: the separator is written whatever the buffer ends in
joinpath_always_separator(path, path2, path_len) ==
    IF ~_Py_isabs(path2)
    THEN LET n == Len(path)
         IN  IF n >= path_len
             THEN [status |-> "pathlen", path |-> path]
             ELSE LET p1 == IF n > 0 THEN path \o separator ELSE path
                  IN  IF Len(p1) + Len(path2) >= path_len
                      THEN [status |-> "pathlen", path |-> p1]
                      ELSE [status |-> "ok", path |-> p1 \o path2]
    ELSE IF Len(path2) >= path_len
         THEN [status |-> "pathlen", path |-> path]
         ELSE [status |-> "ok", path |-> path2]

joinpath(path, path2, path_len) ==
    IF ~_Py_isabs(path2)
    THEN LET n == Len(path)
         IN  IF n >= path_len
             THEN [status |-> "pathlen", path |-> path]
             ELSE LET p1 == IF n > 0 /\ path[n] # SEP
                            THEN path \o separator ELSE path
                  IN  IF Len(p1) + Len(path2) >= path_len
                      THEN [status |-> "pathlen", path |-> p1]
                      ELSE [status |-> "ok", path |-> p1 \o path2]
    ELSE IF Len(path2) >= path_len
         THEN [status |-> "pathlen", path |-> path]
         ELSE [status |-> "ok", path |-> path2]

\* safe_wcscpy(dst, src, n): [status, path]; dst is emptied on failure
safe_wcscpy(src, n) ==
    IF n <= Len(src)
    THEN [status |-> "pathlen", path |-> EMPTY]
    ELSE [status |-> "ok", path |-> src]

\* fileutils.c: _Py_wgetcwd(buf, len): NULL when the working directory
\* cannot be obtained or does not fit
_Py_wgetcwd(cwd, len) ==
    IF cwd = NULL \/ Len(cwd) >= len THEN NULL ELSE cwd

(***************************************************************************)
(* copy_absolute(abs_path, path, abs_path_len), absolutize(path, path_len) *)
(***************************************************************************)
copy_absolute(path, abs_path_len, cwd) ==
    IF _Py_isabs(path)
    THEN safe_wcscpy(path, abs_path_len)
    ELSE LET wd == _Py_wgetcwd(cwd, abs_path_len)
         IN  IF wd = NULL
             THEN safe_wcscpy(path, abs_path_len)
             ELSE LET p == IF Len(path) >= 2 /\ path[1] = "." /\ path[2] = SEP
                           THEN Drop(path, 2) ELSE path
                  IN  joinpath(wd, p, abs_path_len)

absolutize(path, path_len, cwd) ==
    LET Copy(abs_path) ==
            IF ~Ok(abs_path.status)
            THEN [status |-> abs_path.status, path |-> path]
            ELSE safe_wcscpy(abs_path.path, path_len)
    IN  IF _Py_isabs(path)
        THEN [status |-> "ok", path |-> path]
        ELSE Copy(copy_absolute(path, MAXPATHLEN + 1, cwd))


(***************************************************************************)
(* The file system, as the operating system answers the calls of the code. *)
(* fs is a record:                                                         *)
(*   files, xfiles  regular files (xfiles have an execute bit)             *)
(*   dirs           directories                                            *)
(*   links          symbolic links, pairs <<path, target>>                 *)
(*   cfg            pyvenv.cfg files, pairs <<path, value of home or NULL>>*)
(*   builddir       pybuilddir.txt files, pairs <<path, content>>          *)
(*   cwd            the working directory, NULL when it cannot be obtained *)
(* Paths are kept in canonical form: absolute, no empty or "." segment.    *)
(***************************************************************************)
RECURSIVE Split(_, _)
Split(s, c) ==
    LET i == wcschr(s, c)
    IN  IF i = 0 THEN <<s>> ELSE <<Take(s, i - 1)>> \o Split(Drop(s, i), c)

RECURSIVE Join(_, _)
Join(segs, c) ==
    IF segs = <<>> THEN EMPTY
    ELSE IF Len(segs) = 1 THEN segs[1]
    ELSE segs[1] \o <<c>> \o Join(Tail(segs), c)

IsNameSegment(x) == x # EMPTY /\ x # <<".">>

\* the path the kernel resolves p to; NULL when p names nothing
Canon(p, cwd) ==
    IF p = EMPTY \/ (~_Py_isabs(p) /\ cwd = NULL) THEN NULL
    ELSE LET a == IF _Py_isabs(p) THEN p ELSE cwd \o separator \o p
         IN  separator \o Join(SelectSeq(Split(a, SEP), IsNameSegment), SEP)

LinkTarget(fs, c) == (CHOOSE l \in fs.links : l[1] = c)[2]
IsLink(fs, c) == \E l \in fs.links : l[1] = c

\* stat(2) follows symbolic links and fails with ELOOP on a cycle: a walk
\* over more links than there are goes through one of them twice
RECURSIVE StatKind(_, _, _)
StatKind(fs, p, fuel) ==
    LET Kind(c) ==
            IF c = NULL THEN "none"
            ELSE IF IsLink(fs, c)
            THEN IF fuel = 0 THEN "none"
                 ELSE LET t == LinkTarget(fs, c)
                      IN  StatKind(fs, IF _Py_isabs(t) THEN t
                                       ELSE reduce(c) \o separator \o t,
                                   fuel - 1)
            ELSE IF c \in fs.xfiles THEN "xfile"
            ELSE IF c \in fs.files THEN "file"
            ELSE IF c \in fs.dirs THEN "dir"
            ELSE "none"
    IN  Kind(Canon(p, fs.cwd))

_Py_wstat(fs, path) == StatKind(fs, path, Cardinality(fs.links))

Probe(op, path) == [op |-> op, path |-> path]

isfile(fs, filename) == _Py_wstat(fs, filename) \in {"file", "xfile"}
isxfile(fs, filename) == _Py_wstat(fs, filename) = "xfile"
isdir(fs, filename) == _Py_wstat(fs, filename) = "dir"

\* fileutils.c: _Py_wfopen(path, mode): TRUE when a stream is opened
_Py_wfopen(fs, filename) == _Py_wstat(fs, filename) \in {"file", "xfile"}

\* fileutils.c: _Py_wreadlink(path, buf, buflen): the target, NULL for -1
_Py_wreadlink(fs, path, buflen) ==
    LET Target(c) ==
            IF c = NULL \/ ~IsLink(fs, c) THEN NULL
            ELSE IF Len(LinkTarget(fs, c)) >= buflen THEN NULL
            ELSE LinkTarget(fs, c)
    IN  Target(Canon(path, fs.cwd))

(***************************************************************************)
(* ismodule(path, &result): [status, result, log]                          *)
(***************************************************************************)
ismodule(fs, path) ==
    LET filename_len == MAXPATHLEN + 1
        c == safe_wcscpy(path, filename_len)
        Look(j) ==
            IF ~Ok(j.status)
            THEN [status |-> j.status, result |-> 0, log |-> <<>>]
            ELSE IF isfile(fs, j.path)
            THEN [status |-> "ok", result |-> 1,
                  log |-> <<Probe("isfile", j.path)>>]
            ELSE IF Len(j.path) + 2 <= filename_len
            THEN [status |-> "ok",
                  result |-> IF isfile(fs, j.path \o S_c) THEN 1 ELSE 0,
                  log |-> <<Probe("isfile", j.path),
                            Probe("isfile", j.path \o S_c)>>]
            ELSE [status |-> "ok", result |-> 0,
                  log |-> <<Probe("isfile", j.path)>>]
    IN  IF ~Ok(c.status)
        THEN [status |-> "pathlen", result |-> 0, log |-> <<>>]
        ELSE Look(joinpath(c.path, LANDMARK, filename_len))

(***************************************************************************)
(* search_for_prefix: [status, prefix, found, log].  calculate and         *)
(* pathconfig are the records of the source; vpath is the decoded VPATH    *)
(* macro, NULL when Py_DecodeLocale returned NULL.                         *)
(***************************************************************************)
SearchResult(status, buf, found, log) ==
    [status |-> status, path |-> buf, found |-> found, log |-> log]

\* the do ... while (prefix[0]) loop of the ancestor walk
RECURSIVE prefix_walk(_, _, _, _, _)
prefix_walk(calculate, fs, prefix, prefix_len, log) ==
    LET Up(j, m) ==
            IF ~Ok(m.status)
            THEN SearchResult(m.status, j.path, 0, log \o m.log)
            ELSE IF m.result = 1
            THEN SearchResult("ok", j.path, 1, log \o m.log)
            ELSE IF reduce(prefix) # EMPTY
            THEN prefix_walk(calculate, fs, reduce(prefix), prefix_len,
                             log \o m.log)
            ELSE SearchResult("ok", EMPTY, 0, log \o m.log)
        Try(j) ==
            IF ~Ok(j.status) THEN SearchResult(j.status, j.path, 0, log)
            ELSE Up(j, ismodule(fs, j.path))
    IN  Try(joinpath(prefix, calculate.lib_python, prefix_len))

\* from "Search from argv0_path, until root is found" to the end
prefix_from_walk(calculate, fs, argv0_path, prefix_len, log) ==
    LET c == safe_wcscpy(calculate.prefix, prefix_len)
        Configured(w, j, m) ==
            IF ~Ok(m.status)
            THEN SearchResult(m.status, j.path, 0, w.log \o m.log)
            ELSE SearchResult("ok", j.path, m.result, w.log \o m.log)
        Fallback(w, j) ==
            IF ~Ok(c.status) THEN SearchResult("pathlen", c.path, 0, w.log)
            ELSE IF ~Ok(j.status) THEN SearchResult(j.status, j.path, 0, w.log)
            ELSE Configured(w, j, ismodule(fs, j.path))
        Walked(w) ==
            IF ~Ok(w.status) \/ w.found = 1 THEN w
            ELSE Fallback(w, joinpath(c.path, calculate.lib_python,
                                      prefix_len))
        Start(a) ==
            IF ~Ok(a.status) THEN SearchResult(a.status, a.path, 0, log)
            ELSE Walked(prefix_walk(calculate, fs, a.path, prefix_len, log))
    IN  Start(copy_absolute(argv0_path, prefix_len, fs.cwd))

\* variant: an empty VPATH is taken for no VPATH
prefix_build_check_needs_vpath(fs, argv0_path, prefix_len, vpath) ==
    LET path_len == MAXPATHLEN + 1
        c == safe_wcscpy(argv0_path, path_len)
        c2 == safe_wcscpy(argv0_path, prefix_len)
        Landmark(lg, j3, m) ==
            IF ~Ok(m.status)
            THEN SearchResult(m.status, j3.path, 0, lg \o m.log)
            ELSE SearchResult("ok", j3.path,
                              IF m.result = 1 THEN -1 ELSE 0, lg \o m.log)
        Lib(lg, j3) ==
            IF ~Ok(j3.status) THEN SearchResult(j3.status, j3.path, 0, lg)
            ELSE Landmark(lg, j3, ismodule(fs, j3.path))
        Vpath(lg, j2) ==
            IF ~Ok(j2.status) THEN SearchResult(j2.status, j2.path, 0, lg)
            ELSE Lib(lg, joinpath(j2.path, S_Lib, prefix_len))
        Marker(j) ==
            IF ~Ok(j.status) THEN SearchResult(j.status, EMPTY, 0, <<>>)
            ELSE IF ~(isfile(fs, j.path) /\ vpath # NULL /\ vpath # EMPTY)
            THEN SearchResult("ok", EMPTY, 0, <<Probe("isfile", j.path)>>)
            ELSE IF ~Ok(c2.status)
            THEN SearchResult("pathlen", c2.path, 0,
                              <<Probe("isfile", j.path)>>)
            ELSE Vpath(<<Probe("isfile", j.path)>>,
                       joinpath(c2.path, vpath, prefix_len))
    IN  IF ~Ok(c.status) THEN SearchResult("pathlen", EMPTY, 0, <<>>)
        ELSE Marker(joinpath(c.path, S_SetupLocal, path_len))

\* the build-directory check: [status, path, found, log]; found = 0 with
\* status ok means "go on with the ancestor walk"
\* variant: the build tree's prefix is argv0_path itself
prefix_build_check_anchor(fs, argv0_path, prefix_len, vpath) ==
    LET path_len == MAXPATHLEN + 1
        c == safe_wcscpy(argv0_path, path_len)
        c2 == safe_wcscpy(argv0_path, prefix_len)
        Landmark(lg, j3, m) ==
            IF ~Ok(m.status)
            THEN SearchResult(m.status, j3.path, 0, lg \o m.log)
            ELSE SearchResult("ok", c2.path,
                              IF m.result = 1 THEN -1 ELSE 0, lg \o m.log)
        Lib(lg, j3) ==
            IF ~Ok(j3.status) THEN SearchResult(j3.status, j3.path, 0, lg)
            ELSE Landmark(lg, j3, ismodule(fs, j3.path))
        Vpath(lg, j2) ==
            IF ~Ok(j2.status) THEN SearchResult(j2.status, j2.path, 0, lg)
            ELSE Lib(lg, joinpath(j2.path, S_Lib, prefix_len))
        Marker(j) ==
            IF ~Ok(j.status) THEN SearchResult(j.status, EMPTY, 0, <<>>)
            ELSE IF ~(isfile(fs, j.path) /\ vpath # NULL)
            THEN SearchResult("ok", EMPTY, 0, <<Probe("isfile", j.path)>>)
            ELSE IF ~Ok(c2.status)
            THEN SearchResult("pathlen", c2.path, 0,
                              <<Probe("isfile", j.path)>>)
            ELSE Vpath(<<Probe("isfile", j.path)>>,
                       joinpath(c2.path, vpath, prefix_len))
    IN  IF ~Ok(c.status) THEN SearchResult("pathlen", EMPTY, 0, <<>>)
        ELSE Marker(joinpath(c.path, S_SetupLocal, path_len))

prefix_build_check(fs, argv0_path, prefix_len, vpath) ==
    LET path_len == MAXPATHLEN + 1
        c == safe_wcscpy(argv0_path, path_len)
        c2 == safe_wcscpy(argv0_path, prefix_len)
        Landmark(lg, j3, m) ==
            IF ~Ok(m.status)
            THEN SearchResult(m.status, j3.path, 0, lg \o m.log)
            ELSE SearchResult("ok", j3.path,
                              IF m.result = 1 THEN -1 ELSE 0, lg \o m.log)
        Lib(lg, j3) ==
            IF ~Ok(j3.status) THEN SearchResult(j3.status, j3.path, 0, lg)
            ELSE Landmark(lg, j3, ismodule(fs, j3.path))
        Vpath(lg, j2) ==
            IF ~Ok(j2.status) THEN SearchResult(j2.status, j2.path, 0, lg)
            ELSE Lib(lg, joinpath(j2.path, S_Lib, prefix_len))
        Marker(j) ==
            IF ~Ok(j.status) THEN SearchResult(j.status, EMPTY, 0, <<>>)
            ELSE IF ~(isfile(fs, j.path) /\ vpath # NULL)
            THEN SearchResult("ok", EMPTY, 0, <<Probe("isfile", j.path)>>)
            ELSE IF ~Ok(c2.status)
            THEN SearchResult("pathlen", c2.path, 0,
                              <<Probe("isfile", j.path)>>)
            ELSE Vpath(<<Probe("isfile", j.path)>>,
                       joinpath(c2.path, vpath, prefix_len))
    IN  IF ~Ok(c.status) THEN SearchResult("pathlen", EMPTY, 0, <<>>)
        ELSE Marker(joinpath(c.path, S_SetupLocal, path_len))

\* "If PYTHONHOME is set, we believe it unconditionally"
prefix_from_home(calculate, pathconfig, prefix_len) ==
    LET c == safe_wcscpy(pathconfig.home, prefix_len)
        d == wcschr(c.path, DELIM)
        p == IF d > 0 THEN Take(c.path, d - 1) ELSE c.path
        Home(j) ==
            IF ~Ok(j.status) THEN SearchResult(j.status, j.path, 0, <<>>)
            ELSE SearchResult("ok", j.path, 1, <<>>)
    IN  IF ~Ok(c.status) THEN SearchResult("pathlen", c.path, 0, <<>>)
        ELSE Home(joinpath(p, calculate.lib_python, prefix_len))

\* a variant that searches the file system even when home is set
search_for_prefix_ignoring_home(calculate, pathconfig, fs, argv0_path, prefix_len, vpath) ==
    LET Built(b) ==
            IF ~Ok(b.status) \/ b.found = -1 THEN b
            ELSE prefix_from_walk(calculate, fs, argv0_path, prefix_len, b.log)
    IN  Built(prefix_build_check(fs, argv0_path, prefix_len, vpath))

search_for_prefix(calculate, pathconfig, fs, argv0_path, prefix_len, vpath) ==
    LET Built(b) ==
            IF ~Ok(b.status) \/ b.found = -1 THEN b
            ELSE prefix_from_walk(calculate, fs, argv0_path, prefix_len, b.log)
    IN  IF pathconfig.home # NULL
        THEN prefix_from_home(calculate, pathconfig, prefix_len)
        ELSE Built(prefix_build_check(fs, argv0_path, prefix_len, vpath))

(***************************************************************************)
(* calculate_prefix: [status, path, found, log, warned]                    *)
(***************************************************************************)
\* variant: the warning is printed whatever calculate->warnings is
calculate_prefix_always_warns(calculate, pathconfig, fs, argv0_path, prefix_len, vpath) ==
    LET c == safe_wcscpy(calculate.prefix, prefix_len)
        NotFound(s, j) ==
            [status |-> IF ~Ok(c.status) THEN "pathlen" ELSE j.status,
             path |-> IF ~Ok(c.status) THEN c.path ELSE j.path,
             found |-> s.found, log |-> s.log,
             warned |-> TRUE]
        Searched(s) ==
            IF ~Ok(s.status) \/ s.found # 0
            THEN [status |-> s.status, path |-> s.path, found |-> s.found,
                  log |-> s.log, warned |-> FALSE]
            ELSE NotFound(s, joinpath(c.path, calculate.lib_python,
                                      prefix_len))
    IN  Searched(search_for_prefix(calculate, pathconfig, fs, argv0_path,
                                   prefix_len, vpath))

calculate_prefix(calculate, pathconfig, fs, argv0_path, prefix_len, vpath) ==
    LET c == safe_wcscpy(calculate.prefix, prefix_len)
        NotFound(s, j) ==
            [status |-> IF ~Ok(c.status) THEN "pathlen" ELSE j.status,
             path |-> IF ~Ok(c.status) THEN c.path ELSE j.path,
             found |-> s.found, log |-> s.log,
             warned |-> (calculate.warnings = 1)]
        Searched(s) ==
            IF ~Ok(s.status) \/ s.found # 0
            THEN [status |-> s.status, path |-> s.path, found |-> s.found,
                  log |-> s.log, warned |-> FALSE]
            ELSE NotFound(s, joinpath(c.path, calculate.lib_python,
                                      prefix_len))
    IN  Searched(search_for_prefix(calculate, pathconfig, fs, argv0_path,
                                   prefix_len, vpath))

(***************************************************************************)
(* calculate_set_prefix: the value stored in pathconfig->prefix            *)
(***************************************************************************)
\* variant: the landmark's directory is shortened by one level only
calculate_set_prefix_one_level(calculate, prefix) ==
    IF calculate.prefix_found > 0
    THEN LET r == reduce(prefix)
         IN  IF r = EMPTY THEN separator ELSE r
    ELSE calculate.prefix

calculate_set_prefix(calculate, prefix) ==
    IF calculate.prefix_found > 0
    THEN LET r == reduce(reduce(prefix))
         IN  IF r = EMPTY THEN separator ELSE r
    ELSE calculate.prefix


(***************************************************************************)
(* calculate_pybuilddir: [status, path, found, log, opened, closed].       *)
(* dec is the outcome of _Py_DecodeUTF8_surrogateescape on the content.    *)
(***************************************************************************)
BuilddirContent(fs, filename) ==
    (CHOOSE b \in fs.builddir : b[1] = Canon(filename, fs.cwd))[2]

FileResult(status, buf, found, log, opened, closed) ==
    [status |-> status, path |-> buf, found |-> found, log |-> log,
     opened |-> opened, closed |-> closed]

\* variant: the file stays open when its content cannot be decoded
calculate_pybuilddir_leaks(fs, argv0_path, exec_prefix_len, dec) ==
    LET filename_len == MAXPATHLEN + 1
        c == safe_wcscpy(argv0_path, filename_len)
        c2 == safe_wcscpy(argv0_path, exec_prefix_len)
        Built(lg, j2) ==
            IF ~Ok(j2.status) THEN FileResult(j2.status, j2.path, 0, lg, 1, 1)
            ELSE FileResult("ok", j2.path, -1, lg, 1, 1)
        Read(lg, content) ==
            IF ~Ok(c2.status) THEN FileResult("pathlen", c2.path, 0, lg, 1, 1)
            ELSE Built(lg, joinpath(c2.path,
                                    Take(content,
                                         Min({Len(content), MAXPATHLEN})),
                                    exec_prefix_len))
        Open(j, lg) ==
            IF ~_Py_wfopen(fs, j.path) THEN FileResult("ok", EMPTY, 0, lg, 0, 0)
            ELSE IF dec # "ok" THEN FileResult(dec, EMPTY, 0, lg, 1, 0)
            ELSE Read(lg, BuilddirContent(fs, j.path))
        File(j) ==
            IF ~Ok(j.status) THEN FileResult(j.status, EMPTY, 0, <<>>, 0, 0)
            ELSE IF ~isfile(fs, j.path)
            THEN FileResult("ok", EMPTY, 0, <<Probe("isfile", j.path)>>, 0, 0)
            ELSE Open(j, <<Probe("isfile", j.path), Probe("fopen", j.path)>>)
    IN  IF ~Ok(c.status) THEN FileResult("pathlen", EMPTY, 0, <<>>, 0, 0)
        ELSE File(joinpath(c.path, S_pybuilddir_txt, filename_len))

calculate_pybuilddir(fs, argv0_path, exec_prefix_len, dec) ==
    LET filename_len == MAXPATHLEN + 1
        c == safe_wcscpy(argv0_path, filename_len)
        c2 == safe_wcscpy(argv0_path, exec_prefix_len)
        Built(lg, j2) ==
            IF ~Ok(j2.status) THEN FileResult(j2.status, j2.path, 0, lg, 1, 1)
            ELSE FileResult("ok", j2.path, -1, lg, 1, 1)
        Read(lg, content) ==
            IF ~Ok(c2.status) THEN FileResult("pathlen", c2.path, 0, lg, 1, 1)
            ELSE Built(lg, joinpath(c2.path,
                                    Take(content,
                                         Min({Len(content), MAXPATHLEN})),
                                    exec_prefix_len))
        Open(j, lg) ==
            IF ~_Py_wfopen(fs, j.path) THEN FileResult("ok", EMPTY, 0, lg, 0, 0)
            ELSE IF dec # "ok" THEN FileResult(dec, EMPTY, 0, lg, 1, 1)
            ELSE Read(lg, BuilddirContent(fs, j.path))
        File(j) ==
            IF ~Ok(j.status) THEN FileResult(j.status, EMPTY, 0, <<>>, 0, 0)
            ELSE IF ~isfile(fs, j.path)
            THEN FileResult("ok", EMPTY, 0, <<Probe("isfile", j.path)>>, 0, 0)
            ELSE Open(j, <<Probe("isfile", j.path), Probe("fopen", j.path)>>)
    IN  IF ~Ok(c.status) THEN FileResult("pathlen", EMPTY, 0, <<>>, 0, 0)
        ELSE File(joinpath(c.path, S_pybuilddir_txt, filename_len))

(***************************************************************************)
(* search_for_exec_prefix: [status, path, found, log, opened, closed]      *)
(***************************************************************************)
\* <dir> / <lib_python> / "lib-dynload"
join_lib_dynload(calculate, dir, exec_prefix_len) ==
    LET Dynload(j) ==
            IF ~Ok(j.status) THEN j
            ELSE joinpath(j.path, S_lib_dynload, exec_prefix_len)
    IN  Dynload(joinpath(dir, calculate.lib_python, exec_prefix_len))

RECURSIVE exec_prefix_walk(_, _, _, _, _)
exec_prefix_walk(calculate, fs, exec_prefix, exec_prefix_len, log) ==
    LET Up(j, lg) ==
            IF isdir(fs, j.path) THEN SearchResult("ok", j.path, 1, lg)
            ELSE IF reduce(exec_prefix) # EMPTY
            THEN exec_prefix_walk(calculate, fs, reduce(exec_prefix),
                                  exec_prefix_len, lg)
            ELSE SearchResult("ok", EMPTY, 0, lg)
        Try(j) ==
            IF ~Ok(j.status) THEN SearchResult(j.status, j.path, 0, log)
            ELSE Up(j, log \o <<Probe("isdir", j.path)>>)
    IN  Try(join_lib_dynload(calculate, exec_prefix, exec_prefix_len))

exec_prefix_from_walk(calculate, fs, argv0_path, exec_prefix_len, log) ==
    LET c == safe_wcscpy(calculate.exec_prefix, exec_prefix_len)
        Fallback(w, j) ==
            IF ~Ok(c.status) THEN SearchResult("pathlen", c.path, 0, w.log)
            ELSE IF ~Ok(j.status) THEN SearchResult(j.status, j.path, 0, w.log)
            ELSE SearchResult("ok", j.path,
                              IF isdir(fs, j.path) THEN 1 ELSE 0,
                              w.log \o <<Probe("isdir", j.path)>>)
        Walked(w) ==
            IF ~Ok(w.status) \/ w.found = 1 THEN w
            ELSE Fallback(w, join_lib_dynload(calculate, c.path,
                                              exec_prefix_len))
        Start(a) ==
            IF ~Ok(a.status) THEN SearchResult(a.status, a.path, 0, log)
            ELSE Walked(exec_prefix_walk(calculate, fs, a.path,
                                         exec_prefix_len, log))
    IN  Start(copy_absolute(argv0_path, exec_prefix_len, fs.cwd))

\* a variant that does not look for a DELIM in home
exec_prefix_from_home_whole(calculate, pathconfig, exec_prefix_len) ==
    LET c == safe_wcscpy(pathconfig.home, exec_prefix_len)
        Home(j) ==
            IF ~Ok(j.status) THEN SearchResult(j.status, j.path, 0, <<>>)
            ELSE SearchResult("ok", j.path, 1, <<>>)
    IN  IF ~Ok(c.status) THEN SearchResult("pathlen", c.path, 0, <<>>)
        ELSE Home(join_lib_dynload(calculate, c.path, exec_prefix_len))

exec_prefix_from_home(calculate, pathconfig, exec_prefix_len) ==
    LET d == wcschr(pathconfig.home, DELIM)
        c == IF d > 0
             THEN safe_wcscpy(Drop(pathconfig.home, d), exec_prefix_len)
             ELSE safe_wcscpy(pathconfig.home, exec_prefix_len)
        Home(j) ==
            IF ~Ok(j.status) THEN SearchResult(j.status, j.path, 0, <<>>)
            ELSE SearchResult("ok", j.path, 1, <<>>)
    IN  IF ~Ok(c.status) THEN SearchResult("pathlen", c.path, 0, <<>>)
        ELSE Home(join_lib_dynload(calculate, c.path, exec_prefix_len))

WithFiles(r, opened, closed) ==
    [status |-> r.status, path |-> r.path, found |-> r.found, log |-> r.log,
     opened |-> opened, closed |-> closed]

search_for_exec_prefix(calculate, pathconfig, fs, argv0_path, exec_prefix_len, dec) ==
    LET Built(b) ==
            IF ~Ok(b.status) \/ b.found # 0 THEN b
            ELSE WithFiles(exec_prefix_from_walk(calculate, fs, argv0_path,
                                                 exec_prefix_len, b.log),
                           b.opened, b.closed)
    IN  IF pathconfig.home # NULL
        THEN WithFiles(exec_prefix_from_home(calculate, pathconfig,
                                             exec_prefix_len), 0, 0)
        ELSE Built(calculate_pybuilddir(fs, argv0_path, exec_prefix_len, dec))

\* calculate_exec_prefix: [status, path, found, log, opened, closed, warned]
calculate_exec_prefix(calculate, pathconfig, fs, argv0_path, exec_prefix_len, dec) ==
    LET c == safe_wcscpy(calculate.exec_prefix, exec_prefix_len)
        NotFound(s, j) ==
            [status |-> IF ~Ok(c.status) THEN "pathlen" ELSE j.status,
             path |-> IF ~Ok(c.status) THEN c.path ELSE j.path,
             found |-> s.found, log |-> s.log,
             opened |-> s.opened, closed |-> s.closed,
             warned |-> (calculate.warnings = 1)]
        Searched(s) ==
            IF ~Ok(s.status) \/ s.found # 0
            THEN [status |-> s.status, path |-> s.path, found |-> s.found,
                  log |-> s.log, opened |-> s.opened, closed |-> s.closed,
                  warned |-> FALSE]
            ELSE NotFound(s, joinpath(c.path, S_lib_lib_dynload,
                                      exec_prefix_len))
    IN  Searched(search_for_exec_prefix(calculate, pathconfig, fs,
                                        argv0_path, exec_prefix_len, dec))

\* variant: two levels are cut off, as calculate_set_prefix does
calculate_set_exec_prefix_two_levels(calculate, exec_prefix) ==
    IF calculate.exec_prefix_found > 0
    THEN LET r == reduce(reduce(exec_prefix))
         IN  IF r = EMPTY THEN separator ELSE r
    ELSE calculate.exec_prefix

\* calculate_set_exec_prefix: the value stored in pathconfig->exec_prefix
calculate_set_exec_prefix(calculate, exec_prefix) ==
    IF calculate.exec_prefix_found > 0
    THEN LET r == reduce(reduce(reduce(exec_prefix)))
         IN  IF r = EMPTY THEN separator ELSE r
    ELSE calculate.exec_prefix

(***************************************************************************)
(* calculate_which: [status, path, found, log]                             *)
(***************************************************************************)
RECURSIVE calculate_which(_, _, _, _, _)
calculate_which(fs, path_env, program_name, fullpath_len, log) ==
    LET delim == wcschr(path_env, DELIM)
        c == IF delim > 0
             THEN IF delim - 1 >= fullpath_len
                  THEN [status |-> "pathlen", path |-> EMPTY]
                  ELSE [status |-> "ok", path |-> Take(path_env, delim - 1)]
             ELSE safe_wcscpy(path_env, fullpath_len)
        Up(j, lg) ==
            IF isxfile(fs, j.path) THEN SearchResult("ok", j.path, 1, lg)
            ELSE IF delim = 0 THEN SearchResult("ok", j.path, 0, lg)
            ELSE calculate_which(fs, Drop(path_env, delim), program_name,
                                 fullpath_len, lg)
        Try(j) ==
            IF ~Ok(j.status) THEN SearchResult(j.status, j.path, 0, log)
            ELSE Up(j, log \o <<Probe("isxfile", j.path)>>)
    IN  IF ~Ok(c.status) THEN SearchResult("pathlen", c.path, 0, log)
        ELSE Try(joinpath(c.path, program_name, fullpath_len))

\* variant: PATH is searched for a program name with a separator as well
calculate_program_impl_searches_always(calculate, pathconfig, fs, fullpath_len) ==
    LET Which(w) ==
            IF ~Ok(w.status)
            THEN [status |-> w.status, path |-> w.path, log |-> w.log]
            ELSE IF w.found = 1
            THEN [status |-> "ok", path |-> w.path, log |-> w.log]
            ELSE [status |-> "ok", path |-> EMPTY, log |-> w.log]
    IN  IF calculate.path_env # NULL
        THEN Which(calculate_which(fs, calculate.path_env,
                                   pathconfig.program_name, fullpath_len,
                                   <<>>))
        ELSE [status |-> "ok", path |-> EMPTY, log |-> <<>>]

\* calculate_program_impl (no __APPLE__ branch): [status, path, log]
calculate_program_impl(calculate, pathconfig, fs, fullpath_len) ==
    LET c == safe_wcscpy(pathconfig.program_name, fullpath_len)
        Which(w) ==
            IF ~Ok(w.status)
            THEN [status |-> w.status, path |-> w.path, log |-> w.log]
            ELSE IF w.found = 1
            THEN [status |-> "ok", path |-> w.path, log |-> w.log]
            ELSE [status |-> "ok", path |-> EMPTY, log |-> w.log]
    IN  IF wcschr(pathconfig.program_name, SEP) > 0
        THEN [status |-> c.status, path |-> c.path, log |-> <<>>]
        ELSE IF calculate.path_env # NULL
        THEN Which(calculate_which(fs, calculate.path_env,
                                   pathconfig.program_name, fullpath_len,
                                   <<>>))
        ELSE [status |-> "ok", path |-> EMPTY, log |-> <<>>]

\* calculate_program: [status, path, log]; path is the value stored in
\* pathconfig->program_full_path; alloc is the outcome of _PyMem_RawWcsdup
calculate_program(calculate, pathconfig, fs, alloc) ==
    LET program_full_path_len == MAXPATHLEN + 1
        Abs(i, a) ==
            IF ~Ok(a.status)
            THEN [status |-> a.status, path |-> NULL, log |-> i.log]
            ELSE IF ~alloc
            THEN [status |-> "nomem", path |-> NULL, log |-> i.log]
            ELSE [status |-> "ok", path |-> a.path, log |-> i.log]
        Impl(i) ==
            IF ~Ok(i.status)
            THEN [status |-> i.status, path |-> NULL, log |-> i.log]
            ELSE IF i.path # EMPTY /\ ~_Py_isabs(i.path)
            THEN Abs(i, absolutize(i.path, program_full_path_len, fs.cwd))
            ELSE Abs(i, [status |-> "ok", path |-> i.path])
    IN  Impl(calculate_program_impl(calculate, pathconfig, fs,
                                    program_full_path_len))

(***************************************************************************)
(* resolve_symlinks: [status, path, log, links]                            *)
(***************************************************************************)
MAXSYMLINKS == 40

\* variant: a relative target is taken for the new path as it is
resolve_symlinks_body_replaces(fs, s, path_len) ==
    LET lg == s.log \o <<Probe("readlink", s.path)>>
        Follow(r) ==
            IF ~Ok(r.status)
            THEN [status |-> r.status, path |-> r.path, log |-> lg,
                  links |-> s.links]
            ELSE IF s.links + 1 >= MAXSYMLINKS
            THEN [status |-> "symloop", path |-> r.path, log |-> lg,
                  links |-> s.links + 1]
            ELSE [status |-> "loop", path |-> r.path, log |-> lg,
                  links |-> s.links + 1]
        Link(new_path) ==
            IF new_path = NULL
            THEN [status |-> "ok", path |-> s.path, log |-> lg,
                  links |-> s.links]
            ELSE Follow(safe_wcscpy(new_path, path_len))
    IN  IF s.status # "loop" THEN s
        ELSE Link(_Py_wreadlink(fs, s.path, MAXPATHLEN + 1))

\* one pass of the body of while (1); s is [status, path, log, links], its
\* status "loop" as long as the loop goes on
resolve_symlinks_body(fs, s, path_len) ==
    LET lg == s.log \o <<Probe("readlink", s.path)>>
        Follow(r) ==
            IF ~Ok(r.status)
            THEN [status |-> r.status, path |-> r.path, log |-> lg,
                  links |-> s.links]
            ELSE IF s.links + 1 >= MAXSYMLINKS
            THEN [status |-> "symloop", path |-> r.path, log |-> lg,
                  links |-> s.links + 1]
            ELSE [status |-> "loop", path |-> r.path, log |-> lg,
                  links |-> s.links + 1]
        Link(new_path) ==
            IF new_path = NULL
            THEN [status |-> "ok", path |-> s.path, log |-> lg,
                  links |-> s.links]
            ELSE IF _Py_isabs(new_path)
            THEN Follow(safe_wcscpy(new_path, path_len))
            ELSE Follow(joinpath(reduce(s.path), new_path, path_len))
    IN  IF s.status # "loop" THEN s
        ELSE Link(_Py_wreadlink(fs, s.path, MAXPATHLEN + 1))

\* n passes of the body: the first half of them, then the second half on
\* what the first half left
RECURSIVE resolve_symlinks_loop(_, _, _, _)
resolve_symlinks_loop(fs, s, path_len, n) ==
    IF n = 0 THEN s
    ELSE IF n = 1 THEN resolve_symlinks_body(fs, s, path_len)
    ELSE CHOOSE r \in {resolve_symlinks_loop(fs, h, path_len, n - (n \div 2)) :
                       h \in {resolve_symlinks_loop(fs, s, path_len, n \div 2)}} : TRUE

resolve_symlinks(fs, path, path_len) ==
    resolve_symlinks_loop(fs, [status |-> "loop", path |-> path,
                               log |-> <<>>, links |-> 0],
                          path_len, MAXSYMLINKS)

\* calculate_argv0_path: [status, path, log, resolved]; resolved is the
\* status resolve_symlinks returned to it
calculate_argv0_path(fs, program_full_path, argv0_path_len) ==
    LET c == safe_wcscpy(program_full_path, argv0_path_len)
        Resolved(r) ==
            [status |-> "ok", path |-> reduce(r.path), log |-> r.log,
             resolved |-> r.status]
    IN  IF ~Ok(c.status)
        THEN [status |-> "pathlen", path |-> c.path, log |-> <<>>,
              resolved |-> "ok"]
        ELSE Resolved(resolve_symlinks(fs, c.path, argv0_path_len))


(***************************************************************************)
(* calculate_read_pyenv: [status, path, log, opened, closed]; path is      *)
(* argv0_path on return.                                                   *)
(***************************************************************************)
\* pathconfig.c: _Py_FindEnvConfigValue(env_file, L"home", value, size):
\* the value of the home key, NULL when the file has none
_Py_FindEnvConfigValue(fs, filename, value_size) ==
    LET Value(v) ==
            IF v = NULL THEN NULL
            ELSE Take(v, Min({Len(v), value_size - 1}))
    IN  Value((CHOOSE b \in fs.cfg : b[1] = Canon(filename, fs.cwd))[2])

PyenvResult(status, argv0_path, log, opened, closed) ==
    [status |-> status, path |-> argv0_path, log |-> log,
     opened |-> opened, closed |-> closed]

\* variant: the value of home is read and dropped
pyenv_use_file_keeps(fs, filename, argv0_path, argv0_path_len, log) ==
    PyenvResult("ok", argv0_path, log, 1, 1)

\* "Look for a 'home' variable and set argv0_path to it, if found"
pyenv_use_file(fs, filename, argv0_path, argv0_path_len, log) ==
    LET Use(home) ==
            IF home = NULL THEN PyenvResult("ok", argv0_path, log, 1, 1)
            ELSE IF ~Ok(safe_wcscpy(home, argv0_path_len).status)
            THEN PyenvResult("pathlen", EMPTY, log, 1, 1)
            ELSE PyenvResult("ok", home, log, 1, 1)
    IN  Use(_Py_FindEnvConfigValue(fs, filename, MAXPATHLEN + 1))

\* variant: the second place is two levels above argv0_path
calculate_read_pyenv_grandparent(fs, argv0_path, argv0_path_len) ==
    LET filename_len == MAXPATHLEN + 1
        c == safe_wcscpy(argv0_path, filename_len)
        Above(lg, j2) ==
            IF ~Ok(j2.status) THEN PyenvResult(j2.status, argv0_path, lg, 0, 0)
            ELSE IF _Py_wfopen(fs, j2.path)
            THEN pyenv_use_file(fs, j2.path, argv0_path, argv0_path_len,
                                lg \o <<Probe("fopen", j2.path)>>)
            ELSE PyenvResult("ok", argv0_path,
                             lg \o <<Probe("fopen", j2.path)>>, 0, 0)
        Here(j) ==
            IF ~Ok(j.status) THEN PyenvResult(j.status, argv0_path, <<>>, 0, 0)
            ELSE IF _Py_wfopen(fs, j.path)
            THEN pyenv_use_file(fs, j.path, argv0_path, argv0_path_len,
                                <<Probe("fopen", j.path)>>)
            ELSE Above(<<Probe("fopen", j.path)>>,
                       joinpath(reduce(reduce(reduce(j.path))), S_pyvenv_cfg,
                                filename_len))
    IN  IF ~Ok(c.status) THEN PyenvResult("pathlen", argv0_path, <<>>, 0, 0)
        ELSE Here(joinpath(c.path, S_pyvenv_cfg, filename_len))

calculate_read_pyenv(fs, argv0_path, argv0_path_len) ==
    LET filename_len == MAXPATHLEN + 1
        c == safe_wcscpy(argv0_path, filename_len)
        Above(lg, j2) ==
            IF ~Ok(j2.status) THEN PyenvResult(j2.status, argv0_path, lg, 0, 0)
            ELSE IF _Py_wfopen(fs, j2.path)
            THEN pyenv_use_file(fs, j2.path, argv0_path, argv0_path_len,
                                lg \o <<Probe("fopen", j2.path)>>)
            ELSE PyenvResult("ok", argv0_path,
                             lg \o <<Probe("fopen", j2.path)>>, 0, 0)
        Here(j) ==
            IF ~Ok(j.status) THEN PyenvResult(j.status, argv0_path, <<>>, 0, 0)
            ELSE IF _Py_wfopen(fs, j.path)
            THEN pyenv_use_file(fs, j.path, argv0_path, argv0_path_len,
                                <<Probe("fopen", j.path)>>)
            ELSE Above(<<Probe("fopen", j.path)>>,
                       joinpath(reduce(reduce(j.path)), S_pyvenv_cfg,
                                filename_len))
    IN  IF ~Ok(c.status) THEN PyenvResult("pathlen", argv0_path, <<>>, 0, 0)
        ELSE Here(joinpath(c.path, S_pyvenv_cfg, filename_len))

(***************************************************************************)
(* calculate_zip_path: [status, path]                                      *)
(***************************************************************************)
calculate_zip_path(calculate, prefix, zip_path_len) ==
    LET c == IF calculate.prefix_found > 0
             THEN safe_wcscpy(prefix, zip_path_len)
             ELSE safe_wcscpy(calculate.prefix, zip_path_len)
        base == IF calculate.prefix_found > 0
                THEN reduce(reduce(c.path)) ELSE c.path
        Zip(j) ==
            IF ~Ok(j.status) THEN j
            ELSE [status |-> "ok",
                  path |-> [j.path EXCEPT ![Len(j.path) - 5] = VERSION[1],
                                          ![Len(j.path) - 4] = VERSION[3]]]
    IN  IF ~Ok(c.status) THEN [status |-> "pathlen", path |-> c.path]
        ELSE Zip(joinpath(base, S_zip00, zip_path_len))

(***************************************************************************)
(* calculate_module_search_path: [status, buf, bufsz].  buf is the string  *)
(* built by the wcscpy/wcscat calls, bufsz the size allocated for it.      *)
(***************************************************************************)
\* "Calculate size of return buffer": the first loop over defpath
RECURSIVE msp_defpath_size(_, _)
msp_defpath_size(defpath, prefixsz) ==
    LET delim == wcschr(defpath, DELIM)
        rel == IF ~_Py_isabs(defpath) THEN prefixsz ELSE 0
    IN  IF delim > 0
        THEN rel + delim + msp_defpath_size(Drop(defpath, delim), prefixsz)
        ELSE rel + Len(defpath) + 1

\* the second loop over defpath: what it appends to buf
RECURSIVE msp_defpath_fill(_, _, _)
msp_defpath_fill(buf, defpath, prefix) ==
    LET delim == wcschr(defpath, DELIM)
        prefixsz == Len(prefix) + 1
        notEmpty == IF delim > 0 THEN defpath[1] # DELIM ELSE defpath # EMPTY
        b1 == IF ~_Py_isabs(defpath)
              THEN IF prefixsz >= 2 /\ prefix[prefixsz - 1] # SEP /\ notEmpty
                   THEN buf \o prefix \o separator
                   ELSE buf \o prefix
              ELSE buf
    IN  IF delim > 0
        THEN msp_defpath_fill(b1 \o Take(defpath, delim),
                              Drop(defpath, delim), prefix)
        ELSE b1 \o defpath

\* a variant that counts the prefix of a relative entry without the
\* separator that may follow it
msp_bufsz_prefix_without_separator(calculate, prefix, exec_prefix, zip_path) ==
    (IF calculate.pythonpath_env # NULL
     THEN Len(calculate.pythonpath_env) + 1 ELSE 0)
    + msp_defpath_size(calculate.pythonpath, Len(prefix))
    + Len(zip_path) + 1
    + Len(exec_prefix) + 1

msp_bufsz(calculate, prefix, exec_prefix, zip_path) ==
    (IF calculate.pythonpath_env # NULL
     THEN Len(calculate.pythonpath_env) + 1 ELSE 0)
    + msp_defpath_size(calculate.pythonpath, Len(prefix) + 1)
    + Len(zip_path) + 1
    + Len(exec_prefix) + 1

\* a variant that puts the zip path after the PYTHONPATH macro entries
calculate_module_search_path_zip_late(calculate, prefix, exec_prefix, zip_path, alloc) ==
    LET bufsz == msp_bufsz(calculate, prefix, exec_prefix, zip_path)
        b0 == IF calculate.pythonpath_env # NULL
              THEN calculate.pythonpath_env \o delimiter ELSE EMPTY
        b2 == msp_defpath_fill(b0, calculate.pythonpath, prefix)
        b3 == b2 \o delimiter \o zip_path \o delimiter \o exec_prefix
    IN  IF ~alloc THEN [status |-> "nomem", buf |-> NULL, bufsz |-> bufsz]
        ELSE [status |-> "ok", buf |-> b3, bufsz |-> bufsz]

calculate_module_search_path(calculate, prefix, exec_prefix, zip_path, alloc) ==
    LET bufsz == msp_bufsz(calculate, prefix, exec_prefix, zip_path)
        b0 == IF calculate.pythonpath_env # NULL
              THEN calculate.pythonpath_env \o delimiter ELSE EMPTY
        b1 == b0 \o zip_path \o delimiter
        b2 == msp_defpath_fill(b1, calculate.pythonpath, prefix)
        b3 == b2 \o delimiter \o exec_prefix
    IN  IF ~alloc THEN [status |-> "nomem", buf |-> NULL, bufsz |-> bufsz]
        ELSE [status |-> "ok", buf |-> b3, bufsz |-> bufsz]


(***************************************************************************)
(* State.                                                                  *)
(*   fs, environ, config, macros   inputs: file system, environment (PATH),*)
(*                   PyConfig, the build-time macros                       *)
(*   pathconfig      the _PyPathConfig record (inputs and outputs)         *)
(*   calculate       the PyCalculatePath record                            *)
(*   argv0_path, prefix, exec_prefix, zip_path   buffers of calculate_path *)
(*   vpath           the decoded VPATH of search_for_prefix                *)
(*   status          the PyStatus returned; pc the next step               *)
(* History: log (file-system queries, by stage), stderr (warnings),        *)
(* writes (assignments to each output field), raised (errors returned by   *)
(* some function, by stage), entry (pathconfig on entry), anchor           *)
(* (argv0_path as calculate_argv0_path left it), handles (open FILEs).     *)
(* Locals of the loops, for the specification that takes them pass by      *)
(* pass: path_env (calculate_which), links (resolve_symlinks), passes (the  *)
(* passes the loop has made).                                              *)
(***************************************************************************)
VARIABLES pc, fs, environ, config, macros, pathconfig, calculate,
          argv0_path, prefix, exec_prefix, zip_path, vpath, status,
          log, stderr, writes, raised, entry, anchor, handles,
          path_env, links, passes

inputs == <<fs, environ, config, macros, entry>>
buffers == <<argv0_path, prefix, exec_prefix, zip_path, vpath>>
history == <<log, stderr, writes, raised, anchor, handles>>
locals == <<path_env, links, passes>>
vars == <<pc, fs, environ, config, macros, pathconfig, calculate,
          argv0_path, prefix, exec_prefix, zip_path, vpath, status,
          log, stderr, writes, raised, entry, anchor, handles,
          path_env, links, passes>>

OutputFields == {"program_full_path", "module_search_path", "prefix",
                 "exec_prefix"}

Tag(stage, s) ==
    [i \in 1..Len(s) |-> [stage |-> stage, op |-> s[i].op, path |-> s[i].path]]

Raise(stage, kind) == raised' = raised \cup {[stage |-> stage, kind |-> kind]}

\* an error status goes up through calculate_path ("return status") and
\* _PyPathConfig_Calculate ("goto done")
Abort(stage, kind) ==
    /\ pc' = "done"
    /\ status' = kind
    /\ Raise(stage, kind)

(***************************************************************************)
(* calculate_init                                                          *)
(***************************************************************************)
CalculateInit ==
    /\ pc = "calculate_init"
    /\ \E decoded \in {"ok", "decode", "nomem"} :
         IF decoded # "ok"
         THEN /\ Abort("calculate_init", decoded)
              /\ UNCHANGED calculate
         ELSE /\ calculate' =
                   [path_env |-> environ.PATH,
                    pythonpath |-> macros.PYTHONPATH,
                    prefix |-> macros.PREFIX,
                    exec_prefix |-> macros.EXEC_PREFIX,
                    lib_python |-> LibPythonLiteral \o VERSION,
                    prefix_found |-> 0,
                    exec_prefix_found |-> 0,
                    warnings |-> config.pathconfig_warnings,
                    pythonpath_env |-> config.pythonpath_env]
              /\ pc' = "calculate_program"
              /\ UNCHANGED <<status, raised>>
    /\ UNCHANGED <<locals, inputs, buffers, pathconfig, log, stderr, writes, anchor,
                   handles>>

(***************************************************************************)
(* calculate_path, step by step.  An output field the caller has set is    *)
(* not computed: the four tests of calculate_path.                         *)
(***************************************************************************)
\* a variant that takes every prefix field for unset
PrefixIsSet_never == FALSE

ProgramFullPathIsSet == pathconfig.program_full_path # NULL
ModuleSearchPathIsSet == pathconfig.module_search_path # NULL
PrefixIsSet == pathconfig.prefix # NULL
ExecPrefixIsSet == pathconfig.exec_prefix # NULL

CalculateProgram ==
    /\ pc = "calculate_program"
    /\ IF ProgramFullPathIsSet
       THEN /\ pc' = "calculate_argv0_path"
            /\ UNCHANGED <<pathconfig, status, log, writes, raised>>
       ELSE \E alloc \in BOOLEAN :
              \E r \in {calculate_program(calculate, pathconfig, fs, alloc)} :
                  /\ log' = log \o Tag("program", r.log)
                  /\ IF Ok(r.status)
                     THEN /\ pathconfig' =
                               [pathconfig EXCEPT !.program_full_path = r.path]
                          /\ writes' =
                               [writes EXCEPT !["program_full_path"] = @ + 1]
                          /\ pc' = "calculate_argv0_path"
                          /\ UNCHANGED <<status, raised>>
                     ELSE /\ Abort("program", r.status)
                          /\ UNCHANGED <<pathconfig, writes>>
    /\ UNCHANGED <<locals, inputs, buffers, calculate, stderr, anchor, handles>>

CalculateArgv0Path ==
    /\ pc = "calculate_argv0_path"
    /\ \E r \in {calculate_argv0_path(fs, pathconfig.program_full_path,
                                     MAXPATHLEN + 1)} :
           /\ log' = log \o Tag("argv0", r.log)
           /\ IF Ok(r.status)
              THEN /\ argv0_path' = r.path
                   /\ anchor' = r.path
                   /\ pc' = "calculate_read_pyenv"
                   /\ status' = status
                   /\ raised' = IF Ok(r.resolved) THEN raised
                                ELSE raised \cup {[stage |-> "argv0",
                                                   kind |-> r.resolved]}
              ELSE /\ Abort("argv0", r.status)
                   /\ UNCHANGED <<argv0_path, anchor>>
    /\ UNCHANGED <<locals, inputs, pathconfig, calculate, prefix, exec_prefix,
                   zip_path, vpath, stderr, writes, handles>>

CalculateReadPyenv ==
    /\ pc = "calculate_read_pyenv"
    /\ \E r \in {calculate_read_pyenv(fs, argv0_path, MAXPATHLEN + 1)} :
           /\ log' = log \o Tag("pyenv", r.log)
           /\ handles' = handles + r.opened - r.closed
           /\ argv0_path' = r.path
           /\ IF Ok(r.status)
              THEN /\ pc' = "calculate_prefix"
                   /\ UNCHANGED <<status, raised>>
              ELSE Abort("pyenv", r.status)
    /\ UNCHANGED <<locals, inputs, pathconfig, calculate, prefix, exec_prefix,
                   zip_path, vpath, stderr, writes, anchor>>

\* search_for_prefix decodes VPATH only after it found Modules/Setup.local
VpathIsDecoded ==
    /\ pathconfig.home = NULL
    /\ Len(argv0_path) < MAXPATHLEN + 1
    /\ LET j == joinpath(argv0_path, S_SetupLocal, MAXPATHLEN + 1)
       IN  Ok(j.status) /\ isfile(fs, j.path)

CalculatePrefix ==
    /\ pc = "calculate_prefix"
    /\ \E vp \in IF VpathIsDecoded THEN {macros.VPATH, NULL} ELSE {NULL} :
         \E r \in {calculate_prefix(calculate, pathconfig, fs, argv0_path,
                                   MAXPATHLEN + 1, vp)} :
             /\ vpath' = vp
             /\ log' = log \o Tag("prefix", r.log)
             /\ stderr' = IF r.warned THEN Append(stderr, "prefix") ELSE stderr
             /\ IF Ok(r.status)
                THEN /\ prefix' = r.path
                     /\ calculate' = [calculate EXCEPT !.prefix_found = r.found]
                     /\ pc' = "calculate_zip_path"
                     /\ UNCHANGED <<status, raised>>
                ELSE /\ Abort("prefix", r.status)
                     /\ UNCHANGED <<prefix, calculate>>
    /\ UNCHANGED <<locals, inputs, pathconfig, argv0_path, exec_prefix, zip_path,
                   writes, anchor, handles>>

CalculateZipPath ==
    /\ pc = "calculate_zip_path"
    /\ \E r \in {calculate_zip_path(calculate, prefix, MAXPATHLEN + 1)} :
           IF Ok(r.status)
           THEN /\ zip_path' = r.path
                /\ pc' = "calculate_exec_prefix"
                /\ UNCHANGED <<status, raised>>
           ELSE /\ Abort("zip_path", r.status)
                /\ UNCHANGED zip_path
    /\ UNCHANGED <<locals, inputs, pathconfig, calculate, argv0_path, prefix,
                   exec_prefix, vpath, log, stderr, writes, anchor, handles>>

\* calculate_exec_prefix and the "Consider setting $PYTHONHOME" hint that
\* calculate_path prints after it
CalculateExecPrefix ==
    /\ pc = "calculate_exec_prefix"
    /\ \E dec \in {"ok", "decode", "nomem"} :
       \E r \in {calculate_exec_prefix(calculate, pathconfig, fs, argv0_path,
                                        MAXPATHLEN + 1, dec)} :
         LET e1 == IF r.warned THEN Append(stderr, "exec_prefix") ELSE stderr
         IN  /\ log' = log \o Tag("exec_prefix", r.log)
             /\ handles' = handles + r.opened - r.closed
             /\ IF Ok(r.status)
                THEN /\ exec_prefix' = r.path
                     /\ calculate' =
                          [calculate EXCEPT !.exec_prefix_found = r.found]
                     /\ stderr' =
                          IF (calculate.prefix_found = 0 \/ r.found = 0)
                             /\ calculate.warnings = 1
                          THEN Append(e1, "hint") ELSE e1
                     /\ pc' = "calculate_module_search_path"
                     /\ UNCHANGED <<status, raised>>
                ELSE /\ Abort("exec_prefix", r.status)
                     /\ stderr' = e1
                     /\ UNCHANGED <<exec_prefix, calculate>>
    /\ UNCHANGED <<locals, inputs, pathconfig, argv0_path, prefix, zip_path, vpath,
                   writes, anchor>>

CalculateModuleSearchPath ==
    /\ pc = "calculate_module_search_path"
    /\ IF ModuleSearchPathIsSet
       THEN /\ pc' = "calculate_set_prefix"
            /\ UNCHANGED <<pathconfig, status, writes, raised>>
       ELSE \E alloc \in BOOLEAN :
              \E r \in {calculate_module_search_path(calculate, prefix,
                                             exec_prefix, zip_path, alloc)} :
                  IF Ok(r.status)
                  THEN /\ pathconfig' =
                            [pathconfig EXCEPT !.module_search_path = r.buf]
                       /\ writes' =
                            [writes EXCEPT !["module_search_path"] = @ + 1]
                       /\ pc' = "calculate_set_prefix"
                       /\ UNCHANGED <<status, raised>>
                  ELSE /\ Abort("module_search_path", r.status)
                       /\ UNCHANGED <<pathconfig, writes>>
    /\ UNCHANGED <<locals, inputs, buffers, calculate, log, stderr, anchor, handles>>

\* calculate_set_prefix reduces the prefix buffer in place
CalculateSetPrefix ==
    /\ pc = "calculate_set_prefix"
    /\ IF PrefixIsSet
       THEN /\ pc' = "calculate_set_exec_prefix"
            /\ UNCHANGED <<pathconfig, prefix, status, writes, raised>>
       ELSE \E alloc \in BOOLEAN :
              LET v == calculate_set_prefix(calculate, prefix)
              IN  /\ prefix' = IF calculate.prefix_found > 0 THEN v ELSE prefix
                  /\ IF alloc
                     THEN /\ pathconfig' = [pathconfig EXCEPT !.prefix = v]
                          /\ writes' = [writes EXCEPT !["prefix"] = @ + 1]
                          /\ pc' = "calculate_set_exec_prefix"
                          /\ UNCHANGED <<status, raised>>
                     ELSE /\ Abort("set_prefix", "nomem")
                          /\ UNCHANGED <<pathconfig, writes>>
    /\ UNCHANGED <<locals, inputs, calculate, argv0_path, exec_prefix, zip_path,
                   vpath, log, stderr, anchor, handles>>

CalculateSetExecPrefix ==
    /\ pc = "calculate_set_exec_prefix"
    /\ IF ExecPrefixIsSet
       THEN /\ pc' = "done"
            /\ status' = "ok"
            /\ UNCHANGED <<pathconfig, exec_prefix, writes, raised>>
       ELSE \E alloc \in BOOLEAN :
              LET v == calculate_set_exec_prefix(calculate, exec_prefix)
              IN  /\ exec_prefix' =
                       IF calculate.exec_prefix_found > 0 THEN v ELSE exec_prefix
                  /\ IF alloc
                     THEN /\ pathconfig' = [pathconfig EXCEPT !.exec_prefix = v]
                          /\ writes' = [writes EXCEPT !["exec_prefix"] = @ + 1]
                          /\ pc' = "done"
                          /\ status' = "ok"
                          /\ UNCHANGED raised
                     ELSE /\ Abort("set_exec_prefix", "nomem")
                          /\ UNCHANGED <<pathconfig, writes>>
    /\ UNCHANGED <<locals, inputs, calculate, argv0_path, prefix, zip_path, vpath,
                   log, stderr, anchor, handles>>


(***************************************************************************)
(* Inputs.  A file system is built from a set of features; a scenario      *)
(* names the file system, the environment, the PyConfig fields, the        *)
(* build-time macros and the _PyPathConfig record on entry.                *)
(***************************************************************************)
P_exe == <<"/","o","p","t","/","r","u","n","t","i","m","e","/","b","i","n","/","p","y","t","h","o","n">>
P_exe_dir == <<"/","o","p","t","/","r","u","n","t","i","m","e","/","b","i","n">>
P_venv_exe == <<"/","s","r","v","/","v","e","n","v","/","b","i","n","/","p","y","t","h","o","n">>
P_usr_bin_python == <<"/","u","s","r","/","b","i","n","/","p","y","t","h","o","n">>
P_cwd == <<"/","o","p","t","/","r","u","n","t","i","m","e">>

\* a path one character longer than any buffer holds
LongPath == separator \o [i \in 1..MAXPATHLEN |-> "x"]
\* an executable whose name just fits, in a directory too long to append
\* a file name to
NearLimitExe ==
    separator \o [i \in 1..(MAXPATHLEN - 8) |-> "y"] \o <<"/","p","y","t","h","o","n">>

\* a directory that fits, too long to append "/python" to
NearLimitDir == separator \o [i \in 1..(MAXPATHLEN - 5) |-> "z"]

\* a relative path that fits, too long to append to the directory of P_exe
DeepDir == [i \in 1..(MAXPATHLEN - 14) |-> "d"]

Features ==
    {"lm_rt", "lmc_opt", "lm_root", "lm_prefix", "setup", "lib", "dyn_rt",
     "dyn_prefix", "builddir", "cfg_here", "cfg_parent", "cfg_grand",
     "cfg_nokey", "link_abs", "link_rel", "link_loop", "no_cwd",
     "builddir_long", "builddir_deep"}

If(b, S) == IF b THEN S ELSE {}

MkFS(feat) ==
    LET cfgHome == IF "cfg_nokey" \in feat THEN NULL ELSE P_exe_dir
        cfg == If("cfg_here" \in feat, {<<<<"/","s","r","v","/","v","e","n","v","/","b","i","n","/","p","y","v","e","n","v",".","c","f","g">>, cfgHome>>})
               \cup If("cfg_parent" \in feat, {<<<<"/","s","r","v","/","v","e","n","v","/","p","y","v","e","n","v",".","c","f","g">>, cfgHome>>})
               \cup If("cfg_grand" \in feat, {<<<<"/","s","r","v","/","p","y","v","e","n","v",".","c","f","g">>, cfgHome>>})
        builddir == If("builddir" \in feat,
                       {<<<<"/","o","p","t","/","r","u","n","t","i","m","e","/","b","i","n","/","p","y","b","u","i","l","d","d","i","r",".","t","x","t">>, <<"b","u","i","l","d","/","l","i","b">>>>})
                    \cup If("builddir_long" \in feat,
                       {<<<<"/","o","p","t","/","r","u","n","t","i","m","e","/","b","i","n","/","p","y","b","u","i","l","d","d","i","r",".","t","x","t">>, LongPath>>})
                    \cup If("builddir_deep" \in feat,
                       {<<<<"/","o","p","t","/","r","u","n","t","i","m","e","/","b","i","n","/","p","y","b","u","i","l","d","d","i","r",".","t","x","t">>, DeepDir>>})
    IN  [xfiles |-> {P_exe, P_venv_exe, <<"/","b","i","n","/","p","y","t","h","o","n">>, <<"/","p","y","t","h","o","n">>},
         files |->
            If("lm_rt" \in feat, {<<"/","o","p","t","/","r","u","n","t","i","m","e","/","l","i","b","/","p","y","t","h","o","n","3",".","9","/","o","s",".","p","y">>})
            \cup If("lmc_opt" \in feat, {<<"/","o","p","t","/","l","i","b","/","p","y","t","h","o","n","3",".","9","/","o","s",".","p","y","c">>})
            \cup If("lm_root" \in feat, {<<"/","l","i","b","/","p","y","t","h","o","n","3",".","9","/","o","s",".","p","y">>})
            \cup If("lm_prefix" \in feat, {<<"/","u","s","r","/","l","o","c","a","l","/","l","i","b","/","p","y","t","h","o","n","3",".","9","/","o","s",".","p","y">>})
            \cup If("setup" \in feat, {<<"/","o","p","t","/","r","u","n","t","i","m","e","/","b","i","n","/","M","o","d","u","l","e","s","/","S","e","t","u","p",".","l","o","c","a","l">>})
            \cup If("lib" \in feat, {<<"/","o","p","t","/","r","u","n","t","i","m","e","/","b","i","n","/","L","i","b","/","o","s",".","p","y">>})
            \cup {c[1] : c \in cfg} \cup {b[1] : b \in builddir},
         dirs |->
            {separator, <<"/","o","p","t">>, <<"/","o","p","t","/","r","u","n","t","i","m","e">>, P_exe_dir, <<"/","u","s","r","/","b","i","n">>,
             <<"/","s","r","v">>, <<"/","s","r","v","/","v","e","n","v">>, <<"/","s","r","v","/","v","e","n","v","/","b","i","n">>, <<"/","b","i","n">>}
            \cup If("dyn_rt" \in feat,
                    {<<"/","o","p","t","/","r","u","n","t","i","m","e","/","l","i","b","/","p","y","t","h","o","n","3",".","9","/","l","i","b","-","d","y","n","l","o","a","d">>})
            \cup If("dyn_prefix" \in feat,
                    {<<"/","u","s","r","/","l","o","c","a","l","/","l","i","b","/","p","y","t","h","o","n","3",".","9","/","l","i","b","-","d","y","n","l","o","a","d">>}),
         links |->
            If("link_abs" \in feat, {<<P_usr_bin_python, P_exe>>})
            \cup If("link_rel" \in feat,
                    {<<P_usr_bin_python, <<"p","y","t","h","o","n","3">>>>,
                     <<<<"/","u","s","r","/","b","i","n","/","p","y","t","h","o","n","3">>, P_exe>>})
            \cup If("link_loop" \in feat, {<<P_usr_bin_python, <<"p","y","t","h","o","n">>>>}),
         cfg |-> cfg,
         builddir |-> builddir,
         cwd |-> IF "no_cwd" \in feat THEN NULL ELSE P_cwd]

DefaultMacros ==
    [PYTHONPATH |-> EMPTY, PREFIX |-> <<"/","u","s","r","/","l","o","c","a","l">>,
     EXEC_PREFIX |-> <<"/","u","s","r","/","l","o","c","a","l">>, VPATH |-> EMPTY]

NoOutputs ==
    [program_name |-> P_exe, home |-> NULL, program_full_path |-> NULL,
     module_search_path |-> NULL, prefix |-> NULL, exec_prefix |-> NULL]

Scenario(feat, PATH, cfgrec, mac, pcfg) ==
    [fs |-> MkFS(feat), environ |-> [PATH |-> PATH], config |-> cfgrec,
     macros |-> mac, pathconfig |-> pcfg]

DefaultPATH == <<"/","u","s","r","/","b","i","n",":","/","o","p","t","/","r","u","n","t","i","m","e","/","b","i","n">>
DefaultConfig == [pathconfig_warnings |-> 1, pythonpath_env |-> NULL]

\* the prefix and exec-prefix searches from an installed or a build tree
SearchScenarios ==
    {Scenario(feat, DefaultPATH,
              [pathconfig_warnings |-> w, pythonpath_env |-> NULL],
              [DefaultMacros EXCEPT !.VPATH = vp], NoOutputs) :
        feat \in SUBSET {"lm_rt", "lmc_opt", "lm_root", "lm_prefix", "setup",
                         "lib", "dyn_rt", "builddir"},
        w \in {0, 1},
        vp \in {EMPTY, <<".">>}}

\* the executable locator
LocatorScenarios ==
    {Scenario(feat \cup link \cup cwd, PATH, DefaultConfig, DefaultMacros,
              [NoOutputs EXCEPT !.program_name = name]) :
        feat \in {{}, {"lm_rt", "dyn_rt"}},
        link \in {{}, {"link_abs"}, {"link_rel"}, {"link_loop"}},
        cwd \in {{}, {"no_cwd"}},
        PATH \in {NULL, DefaultPATH, <<"/","n","o","w","h","e","r","e">>, <<"b","i","n",":","/","u","s","r","/","b","i","n">>,
                  LongPath \o <<":","/","o","p","t","/","r","u","n","t","i","m","e","/","b","i","n">>, <<"/","u","s","r","/","b","i","n",":">> \o LongPath,
                  NearLimitDir \o <<":","/","o","p","t","/","r","u","n","t","i","m","e","/","b","i","n">>,
                  <<"/","o","p","t","/","r","u","n","t","i","m","e","/","b","i","n","/",":","/","u","s","r","/","b","i","n">>},
        name \in {<<"p","y","t","h","o","n">>, P_usr_bin_python, <<"b","i","n","/","p","y","t","h","o","n">>,
                  <<".","/","b","i","n","/","p","y","t","h","o","n">>, <<"/","b","i","n","/","p","y","t","h","o","n">>, <<"/","p","y","t","h","o","n">>, LongPath,
                  NearLimitExe}}

\* PYTHONHOME / Py_SetPythonHome
HomeScenarios ==
    {Scenario(feat, DefaultPATH, DefaultConfig, DefaultMacros,
              [NoOutputs EXCEPT !.home = home]) :
        feat \in SUBSET {"lm_rt", "setup", "lib", "dyn_rt", "builddir"},
        home \in {<<"/","h">>, <<"/","p",":","/","e">>, separator, <<"/","o","p","t","/","r","u","n","t","i","m","e",":","/","e">>, LongPath}}

\* pyvenv.cfg
VenvScenarios ==
    {Scenario(cfg \cup feat, DefaultPATH, DefaultConfig, DefaultMacros,
              [NoOutputs EXCEPT !.program_name = P_venv_exe, !.home = home]) :
        cfg \in SUBSET {"cfg_here", "cfg_parent", "cfg_grand", "cfg_nokey"},
        feat \in {{}, {"lm_rt", "dyn_rt"}, {"setup", "lib", "builddir"}},
        home \in {NULL, <<"/","h">>}}

\* output fields set by the caller
OverrideScenarios ==
    {Scenario(feat, DefaultPATH, DefaultConfig, DefaultMacros,
              [program_name |-> P_exe, home |-> home,
               program_full_path |->
                   IF "program_full_path" \in set THEN P_venv_exe ELSE NULL,
               module_search_path |->
                   IF "module_search_path" \in set THEN <<"/","m","1",":","/","m","2">> ELSE NULL,
               prefix |-> IF "prefix" \in set THEN <<"/","p","p">> ELSE NULL,
               exec_prefix |->
                   IF "exec_prefix" \in set THEN <<"/","p","e">> ELSE NULL]) :
        feat \in {{}, {"lm_rt", "dyn_rt"}, {"setup", "lib", "builddir"}},
        home \in {NULL, <<"/","h">>},
        set \in SUBSET OutputFields}

\* the module search path
PathScenarios ==
    {Scenario(feat, DefaultPATH,
              [pathconfig_warnings |-> 0, pythonpath_env |-> env],
              [DefaultMacros EXCEPT !.PYTHONPATH = pp, !.PREFIX = pre],
              [NoOutputs EXCEPT !.home = home]) :
        feat \in {{}, {"lm_rt", "dyn_rt"}, {"setup", "lib", "builddir"},
                  {"lm_root"}},
        env \in {NULL, EMPTY, <<"/","e","x","t","r","a">>, <<"/","x",":","/","y">>},
        pp \in {EMPTY, <<"l","i","b","-","d","y","n","l","o","a","d">>, <<"p","l","a","t",":","/","s","i","t","e">>, <<":","a",":",":","/","b",":">>},
        pre \in {<<"/","u","s","r","/","l","o","c","a","l">>, separator},
        home \in {NULL, <<"/","u","s","r">>}}

\* pybuilddir.txt with a content that does not fit
BuilddirScenarios ==
    {Scenario(feat \cup content, DefaultPATH, DefaultConfig, DefaultMacros,
              NoOutputs) :
        feat \in SUBSET {"lm_rt", "dyn_rt"},
        content \in {{"builddir_long"}, {"builddir_deep"}}}

\* a chain of n symbolic links /c/01 -> 02, /c/02 -> /c/03, ... that ends
\* at P_exe; the targets are relative and absolute in turn
Digits == <<"0", "1", "2", "3", "4", "5", "6", "7", "8", "9">>
LinkName(i) == <<Digits[(i \div 10) + 1], Digits[(i % 10) + 1]>>
ChainLink(i) == <<"/","c","/">> \o LinkName(i)
Chain(n) ==
    {<<ChainLink(i),
       IF i = n THEN P_exe
       ELSE IF i % 2 = 1 THEN LinkName(i + 1) ELSE ChainLink(i + 1)>> :
        i \in 1..n}
ChainLengths == {MAXSYMLINKS - 1, MAXSYMLINKS, MAXSYMLINKS + 1}

ChainScenarios ==
    {[fs |-> [MkFS({"lm_rt", "dyn_rt"}) EXCEPT !.links = Chain(n)],
      environ |-> [PATH |-> DefaultPATH], config |-> DefaultConfig,
      macros |-> DefaultMacros,
      pathconfig |-> [NoOutputs EXCEPT !.program_name = ChainLink(1)]] :
        n \in ChainLengths}

Scenarios ==
    UNION {SearchScenarios, LocatorScenarios, HomeScenarios,
           VenvScenarios, OverrideScenarios, PathScenarios,
           BuilddirScenarios, ChainScenarios}

Init ==
    /\ \E sc \in Scenarios :
         /\ fs = sc.fs
         /\ environ = sc.environ
         /\ config = sc.config
         /\ macros = sc.macros
         /\ pathconfig = sc.pathconfig
         /\ entry = sc.pathconfig
    /\ pc = "calculate_init"
    /\ calculate = [path_env |-> NULL, pythonpath |-> NULL, prefix |-> NULL,
                    exec_prefix |-> NULL, lib_python |-> NULL,
                    prefix_found |-> 0, exec_prefix_found |-> 0,
                    warnings |-> 0, pythonpath_env |-> NULL]
    /\ argv0_path = EMPTY
    /\ prefix = EMPTY
    /\ exec_prefix = EMPTY
    /\ zip_path = EMPTY
    /\ vpath = NULL
    /\ status = "pending"
    /\ log = <<>>
    /\ stderr = <<>>
    /\ writes = [f \in OutputFields |-> 0]
    /\ raised = {}
    /\ anchor = EMPTY
    /\ handles = 0
    /\ path_env = NULL
    /\ links = 0
    /\ passes = 0

Next ==
    \/ CalculateInit
    \/ CalculateProgram
    \/ CalculateArgv0Path
    \/ CalculateReadPyenv
    \/ CalculatePrefix
    \/ CalculateZipPath
    \/ CalculateExecPrefix
    \/ CalculateModuleSearchPath
    \/ CalculateSetPrefix
    \/ CalculateSetExecPrefix

Spec == Init /\ [][Next]_vars

(***************************************************************************)
(* calculate_module_search_path on its own: its arguments are drawn from   *)
(* the sets below, not from what the earlier steps of calculate_path left. *)
(***************************************************************************)
\* calculate->pythonpath_env: unset, empty, one entry, two entries
MspPythonpathEnvs == {NULL, EMPTY, <<"/","e","x","t","r","a">>, <<"/","x",":","/","y">>}
\* calculate->pythonpath: empty, relative and absolute entries, empty
\* entries first, in the middle and last
MspDefpaths ==
    {EMPTY, <<"l","i","b","-","d","y","n","l","o","a","d">>, <<"/","s","i","t","e">>, <<"p","l","a","t",":","/","s","i","t","e">>, <<"/","s","i","t","e",":","p","l","a","t">>,
     <<":","a",":",":","/","b",":">>, <<":",":">>, <<"a",":","b",":","c">>}
\* prefix: empty, the root, with and without a trailing separator, relative
MspPrefixes ==
    {EMPTY, separator, <<"/","u","s","r","/","l","o","c","a","l">>, <<"/","u","s","r","/","l","o","c","a","l","/">>,
     <<"/","o","p","t","/","r","u","n","t","i","m","e","/","l","i","b","/","p","y","t","h","o","n","3",".","9">>, <<"r","e","l">>}
MspZipPaths == {<<"l","i","b","/","p","y","t","h","o","n","3","9",".","z","i","p">>, <<"/","u","s","r","/","l","o","c","a","l","/","l","i","b","/","p","y","t","h","o","n","3","9",".","z","i","p">>}
MspExecPrefixes ==
    {EMPTY, <<"/","u","s","r","/","l","o","c","a","l","/","l","i","b","/","l","i","b","-","d","y","n","l","o","a","d">>,
     <<"/","o","p","t","/","r","u","n","t","i","m","e","/","l","i","b","/","p","y","t","h","o","n","3",".","9","/","l","i","b","-","d","y","n","l","o","a","d">>}

SearchPathInit ==
    /\ \E env \in MspPythonpathEnvs, defpath \in MspDefpaths :
         calculate = [path_env |-> DefaultPATH,
                      pythonpath |-> defpath,
                      prefix |-> DefaultMacros.PREFIX,
                      exec_prefix |-> DefaultMacros.EXEC_PREFIX,
                      lib_python |-> LibPythonLiteral \o VERSION,
                      prefix_found |-> 0,
                      exec_prefix_found |-> 0,
                      warnings |-> 0,
                      pythonpath_env |-> env]
    /\ prefix \in MspPrefixes
    /\ zip_path \in MspZipPaths
    /\ exec_prefix \in MspExecPrefixes
    /\ pc = "calculate_module_search_path"
    /\ fs = MkFS({})
    /\ environ = [PATH |-> DefaultPATH]
    /\ config = DefaultConfig
    /\ macros = DefaultMacros
    /\ pathconfig = [NoOutputs EXCEPT !.program_full_path = P_exe]
    /\ entry = NoOutputs
    /\ argv0_path = P_exe_dir
    /\ vpath = NULL
    /\ status = "pending"
    /\ log = <<>>
    /\ stderr = <<>>
    /\ writes = [f \in OutputFields |-> 0]
    /\ raised = {}
    /\ anchor = P_exe_dir
    /\ handles = 0
    /\ path_env = NULL
    /\ links = 0
    /\ passes = 0

SearchPathNext == CalculateModuleSearchPath

SearchPathSpec == SearchPathInit /\ [][SearchPathNext]_vars

(***************************************************************************)
(* The loops of the computation, pass by pass: the while (1) of            *)
(* calculate_which and of resolve_symlinks, the do ... while of            *)
(* search_for_prefix and of search_for_exec_prefix.  pc names the function *)
(* whose loop runs; each loop starts on arguments drawn from the sets      *)
(* below and ends, with the status the function then has, in pc = "done".  *)
(***************************************************************************)
Loops == {"calculate_which", "resolve_symlinks", "search_for_prefix",
          "search_for_exec_prefix"}

\* file systems: with and without the landmarks, with a link, a link to
\* itself, the chains of links; each with and without a working directory
LoopFileSystems ==
    {[f EXCEPT !.cwd = cwd] :
        f \in {MkFS(feat) : feat \in {{}, {"lm_rt", "dyn_rt"}, {"lmc_opt"},
                                      {"link_abs"}, {"link_rel"},
                                      {"link_loop"}}}
              \cup {[MkFS({}) EXCEPT !.links = Chain(n)] : n \in ChainLengths},
        cwd \in {P_cwd, NULL}}

\* PATH: empty, empty entries, no match, a match, many entries, an entry
\* that does not fit, an entry too long to append the program name to
LoopPATHs ==
    {EMPTY, <<":">>, <<"/","n","o","w","h","e","r","e">>, DefaultPATH, <<"b","i","n",":","/","u","s","r","/","b","i","n">>,
     <<":",":","/","o","p","t","/","r","u","n","t","i","m","e","/","b","i","n",":">>, <<"/","a",":","/","b",":","/","c",":","/","d",":","/","e",":","/","f",":","/","g",":","/","h">>,
     LongPath \o <<":","/","o","p","t","/","r","u","n","t","i","m","e","/","b","i","n">>, NearLimitDir \o <<":","/","o","p","t","/","r","u","n","t","i","m","e","/","b","i","n">>}
LoopNames == {<<"p","y","t","h","o","n">>, <<"n","o","t","h","e","r","e">>}
\* the path resolve_symlinks is given
LoopExecutables ==
    {P_exe, P_usr_bin_python, ChainLink(1), <<"b","i","n","/","p","y","t","h","o","n">>, EMPTY}
\* argv0_path: empty, relative, the root, ending in a separator, with an
\* empty segment, too long to append to
WalkAnchors ==
    {EMPTY, <<"b","i","n">>, <<".","/","b","i","n">>, separator, P_exe_dir, <<"/","o","p","t","/","r","u","n","t","i","m","e","/","b","i","n","/">>,
     <<"/","o","p","t","/","/","r","u","n","t","i","m","e">>, <<"/","/">>, NearLimitDir}

LoopStart(loop, f, PATH, name, path, buf) ==
    [pc |-> loop, fs |-> f, PATH |-> PATH, program_name |-> name,
     argv0_path |-> path, buf |-> buf]

WhichStarts ==
    {LoopStart("calculate_which", f, PATH, name, EMPTY, EMPTY) :
        f \in LoopFileSystems, PATH \in LoopPATHs, name \in LoopNames}
ResolveStarts ==
    {LoopStart("resolve_symlinks", f, DefaultPATH, P_exe, path, EMPTY) :
        f \in LoopFileSystems, path \in LoopExecutables}
\* both walks start at copy_absolute(argv0_path), if that is no error
WalkStarts ==
    {LoopStart(loop, st[1], DefaultPATH, P_exe, st[2],
               copy_absolute(st[2], MAXPATHLEN + 1, st[1].cwd).path) :
        loop \in {"search_for_prefix", "search_for_exec_prefix"},
        st \in {x \in LoopFileSystems \X WalkAnchors :
                   Ok(copy_absolute(x[2], MAXPATHLEN + 1, x[1].cwd).status)}}
LoopStarts == WhichStarts \cup ResolveStarts \cup WalkStarts

LoopInit ==
    /\ \E st \in LoopStarts :
         /\ pc = st.pc
         /\ fs = st.fs
         /\ environ = [PATH |-> st.PATH]
         /\ pathconfig =
              [NoOutputs EXCEPT
                  !.program_name = st.program_name,
                  !.program_full_path =
                      IF st.pc = "resolve_symlinks" THEN st.argv0_path
                      ELSE NULL]
         /\ argv0_path = st.argv0_path
         /\ anchor = st.argv0_path
         /\ prefix = IF st.pc = "search_for_prefix" THEN st.buf ELSE EMPTY
         /\ exec_prefix =
              IF st.pc = "search_for_exec_prefix" THEN st.buf ELSE EMPTY
         /\ path_env = IF st.pc = "calculate_which" THEN st.PATH ELSE NULL
    /\ entry = NoOutputs
    /\ config = DefaultConfig
    /\ macros = DefaultMacros
    /\ calculate = [path_env |-> environ.PATH,
                    pythonpath |-> macros.PYTHONPATH,
                    prefix |-> macros.PREFIX,
                    exec_prefix |-> macros.EXEC_PREFIX,
                    lib_python |-> LibPythonLiteral \o VERSION,
                    prefix_found |-> 0,
                    exec_prefix_found |-> 0,
                    warnings |-> config.pathconfig_warnings,
                    pythonpath_env |-> config.pythonpath_env]
    /\ links = 0
    /\ passes = 0
    /\ zip_path = EMPTY
    /\ vpath = NULL
    /\ status = "pending"
    /\ log = <<>>
    /\ stderr = <<>>
    /\ writes = [f \in OutputFields |-> 0]
    /\ raised = {}
    /\ handles = 0

\* no loop is followed for more passes than this
MaxPasses == MAXPATHLEN + 2

\* what every pass does: it is counted
Pass == pc # "done" /\ passes < MaxPasses /\ passes' = passes + 1

\* the loop is left, by a return or by its own test
Return(st) == pc' = "done" /\ status' = st

\* calculate_which: one pass of while (1); a match is kept in
\* program_full_path
WhichPass ==
    /\ pc = "calculate_which"
    /\ Pass
    /\ LET fullpath_len == MAXPATHLEN + 1
           delim == wcschr(path_env, DELIM)
           c == IF delim > 0
                THEN IF delim - 1 >= fullpath_len
                     THEN [status |-> "pathlen", path |-> EMPTY]
                     ELSE [status |-> "ok", path |-> Take(path_env, delim - 1)]
                ELSE safe_wcscpy(path_env, fullpath_len)
       IN  \E j \in {joinpath(c.path, pathconfig.program_name,
                              fullpath_len)} :
             IF ~Ok(c.status)
             THEN Return("pathlen") /\ UNCHANGED <<path_env, pathconfig>>
             ELSE IF ~Ok(j.status)
             THEN Return(j.status) /\ UNCHANGED <<path_env, pathconfig>>
             ELSE IF isxfile(fs, j.path)
             THEN /\ Return("ok")
                  /\ pathconfig' =
                       [pathconfig EXCEPT !.program_full_path = j.path]
                  /\ UNCHANGED path_env
             ELSE IF delim = 0
             THEN Return("ok") /\ UNCHANGED <<path_env, pathconfig>>
             ELSE /\ path_env' = Drop(path_env, delim)
                  /\ UNCHANGED <<pc, status, pathconfig>>
    /\ UNCHANGED <<links, inputs, buffers, calculate, history>>

\* resolve_symlinks: one pass of while (1) on the argv0_path buffer
ResolvePass ==
    /\ pc = "resolve_symlinks"
    /\ Pass
    /\ \E r \in {resolve_symlinks_body(fs, [status |-> "loop",
                                             path |-> argv0_path,
                                             log |-> <<>>, links |-> links],
                                        MAXPATHLEN + 1)} :
         /\ argv0_path' = r.path
         /\ links' = r.links
         /\ IF r.status = "loop" THEN UNCHANGED <<pc, status>>
            ELSE Return(r.status)
    /\ UNCHANGED <<path_env, inputs, pathconfig, calculate, prefix,
                   exec_prefix, zip_path, vpath, history>>

\* search_for_prefix: one pass of do ... while (prefix[0])
PrefixWalkPass ==
    /\ pc = "search_for_prefix"
    /\ Pass
    /\ \E j \in {joinpath(prefix, calculate.lib_python, MAXPATHLEN + 1)} :
         IF ~Ok(j.status)
         THEN /\ Return(j.status)
              /\ prefix' = j.path
              /\ UNCHANGED calculate
         ELSE \E m \in {ismodule(fs, j.path)} :
                IF ~Ok(m.status)
                THEN /\ Return(m.status)
                     /\ prefix' = j.path
                     /\ UNCHANGED calculate
                ELSE IF m.result = 1
                THEN /\ Return("ok")
                     /\ prefix' = j.path
                     /\ calculate' = [calculate EXCEPT !.prefix_found = 1]
                ELSE /\ prefix' = reduce(prefix)
                     /\ IF reduce(prefix) # EMPTY
                        THEN UNCHANGED <<pc, status>>
                        ELSE Return("ok")
                     /\ UNCHANGED calculate
    /\ UNCHANGED <<path_env, links, inputs, pathconfig, argv0_path,
                   exec_prefix, zip_path, vpath, history>>

\* search_for_exec_prefix: one pass of do ... while (exec_prefix[0])
ExecPrefixWalkPass ==
    /\ pc = "search_for_exec_prefix"
    /\ Pass
    /\ \E j \in {join_lib_dynload(calculate, exec_prefix, MAXPATHLEN + 1)} :
         IF ~Ok(j.status)
         THEN /\ Return(j.status)
              /\ exec_prefix' = j.path
              /\ UNCHANGED calculate
         ELSE IF isdir(fs, j.path)
         THEN /\ Return("ok")
              /\ exec_prefix' = j.path
              /\ calculate' = [calculate EXCEPT !.exec_prefix_found = 1]
         ELSE /\ exec_prefix' = reduce(exec_prefix)
              /\ IF reduce(exec_prefix) # EMPTY
                 THEN UNCHANGED <<pc, status>>
                 ELSE Return("ok")
              /\ UNCHANGED calculate
    /\ UNCHANGED <<path_env, links, inputs, pathconfig, argv0_path, prefix,
                   zip_path, vpath, history>>

LoopNext ==
    \/ WhichPass
    \/ ResolvePass
    \/ PrefixWalkPass
    \/ ExecPrefixWalkPass

\* a pass that can be taken is taken: the loops run in one thread
LoopSpec == LoopInit /\ [][LoopNext]_vars /\ WF_passes(Pass)

(***************************************************************************)
(* Properties.                                                             *)
(***************************************************************************)
Done == pc = "done"
Succeeded == pc = "done" /\ status = "ok"
StageLog(stage) == SelectSeq(log, LAMBDA e : e.stage = stage)
LibPython == LibPythonLiteral \o VERSION

\* dir/name as a path name: one separator between the two, none after an
\* empty dir or a dir that ends in one
DirJoin(dir, name) ==
    IF dir = EMPTY \/ dir[Len(dir)] = SEP
    THEN dir \o name ELSE dir \o separator \o name

\* the steps of calculate_path that follow a successful calculate_prefix
\* and still hold its result in the prefix buffer
AfterPrefixSearch ==
    pc \in {"calculate_zip_path", "calculate_exec_prefix",
            "calculate_module_search_path", "calculate_set_prefix"}
\* likewise for calculate_exec_prefix
AfterExecPrefixSearch ==
    pc \in {"calculate_module_search_path", "calculate_set_prefix",
            "calculate_set_exec_prefix"}

(***************************************************************************)
(* C1: an output field that the caller set before the call keeps its value *)
(* and is never assigned; a field that was unset is assigned at most once. *)
(***************************************************************************)
C1_OverridePreserved ==
    \A f \in OutputFields :
        /\ writes[f] <= 1
        /\ entry[f] # NULL => (pathconfig[f] = entry[f] /\ writes[f] = 0)
        /\ (Succeeded /\ entry[f] = NULL) => writes[f] = 1

C1_Witness ==
    /\ Succeeded
    /\ entry.prefix # NULL /\ pathconfig.prefix = entry.prefix
    /\ entry.module_search_path # NULL
    /\ entry.exec_prefix = NULL /\ writes["exec_prefix"] = 1
    /\ entry.program_full_path = NULL /\ writes["program_full_path"] = 1

(***************************************************************************)
(* C2: the module search path is the DELIM-joined list of: pythonpath_env  *)
(* if set, the zip path, each entry of the PYTHONPATH macro in order (a    *)
(* relative entry prefixed with prefix, with a separator unless the entry  *)
(* is empty or prefix ends in one; an absolute entry unchanged), and the   *)
(* exec_prefix last.                                                       *)
(***************************************************************************)
ExpectedEntry(pre, e) ==
    IF _Py_isabs(e) THEN e
    ELSE IF e = EMPTY \/ (pre # EMPTY /\ pre[Len(pre)] = SEP) THEN pre \o e
    ELSE pre \o separator \o e

ExpectedSearchPath(env, zip, defpath, pre, execpre) ==
    LET entries == Split(defpath, DELIM)
    IN  Join((IF env # NULL THEN <<env>> ELSE <<>>)
             \o <<zip>>
             \o [i \in 1..Len(entries) |-> ExpectedEntry(pre, entries[i])]
             \o <<execpre>>, DELIM)

C2_Example ==
    calculate_module_search_path(
        [pythonpath_env |-> <<"/","e","x","t","r","a">>, pythonpath |-> <<"l","i","b","-","d","y","n","l","o","a","d">>],
        <<"/","u","s","r">>, <<"/","u","s","r","/","l","i","b","/","p","y","3","9","/","d","y","n","l","o","a","d">>, <<"/","u","s","r","/","l","i","b","/","p","y","3","9",".","z","i","p">>, TRUE).buf
    = <<"/","e","x","t","r","a",":","/","u","s","r","/","l","i","b","/","p","y","3","9",".","z","i","p",":","/","u","s","r","/","l","i","b","-","d","y","n","l","o","a","d",":","/","u","s","r","/","l","i","b","/","p","y","3","9","/","d","y","n","l","o","a","d">>

HomeParts == Split(pathconfig.home, DELIM)
HomePrefixPart == HomeParts[1]
HomeExecPart == IF Len(HomeParts) = 1 THEN HomeParts[1] ELSE HomeParts[2]

C4_HomeSingleOrCompound ==
    pathconfig.home # NULL =>
        /\ AfterPrefixSearch => prefix = DirJoin(HomePrefixPart, LibPython)
        /\ AfterExecPrefixSearch =>
             exec_prefix = DirJoin(DirJoin(HomeExecPart, LibPython),
                                   S_lib_dynload)
        /\ (Succeeded /\ entry.prefix = NULL)
             => pathconfig.prefix = HomePrefixPart
        /\ (Succeeded /\ entry.exec_prefix = NULL)
             => pathconfig.exec_prefix = HomeExecPart

C4_Witness ==
    /\ Succeeded
    /\ pathconfig.home = <<"/","p",":","/","e">>
    /\ pathconfig.prefix = <<"/","p">>
    /\ pathconfig.exec_prefix = <<"/","e">>

(***************************************************************************)
(* C5: an error (path too long, decode failure, out of memory, too many    *)
(* symbolic links) returned by a function of any stage ends the            *)
(* computation at once with a failure status.                              *)
(***************************************************************************)
C5_EveryErrorAborts ==
    raised # {} => (pc = "done" /\ status # "ok")

(***************************************************************************)
(* Directories and landmarks, as the file system has them.                 *)
(***************************************************************************)
Range(s) == {s[i] : i \in DOMAIN s}
Longest(S) == CHOOSE x \in S : \A y \in S : Len(y) <= Len(x)

\* the directory argv0_path names, NULL if it names none
AnchorDir ==
    IF argv0_path = EMPTY THEN fs.cwd ELSE Canon(argv0_path, fs.cwd)

\* a canonical directory and the directories above it, up to the root
AncestorsOf(c) ==
    {Take(c, i) : i \in {i \in 1..Len(c) : i = Len(c) \/ c[i + 1] = SEP}}
    \cup {separator}

AnchorAndAncestors == IF AnchorDir = NULL THEN {} ELSE AncestorsOf(AnchorDir)

LandmarkFile == DirJoin(LibPython, LANDMARK)
\* C/lib/python<VERSION>/os.py or os.pyc is a regular file
HasLandmark(C) ==
    \/ isfile(fs, DirJoin(C, LandmarkFile))
    \/ isfile(fs, DirJoin(C, LandmarkFile \o S_c))

HasBuildMarker == isfile(fs, DirJoin(argv0_path, S_SetupLocal))

\* the build tree of argv0_path has Lib/os.py or Lib/os.pyc
BuildLib(vp) == DirJoin(DirJoin(argv0_path, vp), S_Lib)
HasBuildLandmark(vp) ==
    \/ isfile(fs, DirJoin(BuildLib(vp), LANDMARK))
    \/ isfile(fs, DirJoin(BuildLib(vp), LANDMARK \o S_c))

BuildTreeMatch == HasBuildMarker /\ vpath # NULL /\ HasBuildLandmark(vpath)

\* calculate_prefix has returned successfully
PrefixSearched ==
    AfterPrefixSearch \/ pc = "calculate_set_exec_prefix" \/ Succeeded

(***************************************************************************)
(* C6: with no home, no build marker and no landmark under the anchor      *)
(* directory, its ancestors or PREFIX, the prefix search result is         *)
(* PREFIX/lib/python<VERSION> with outcome not-found, the warning is       *)
(* printed exactly when warnings are enabled, and the search is no         *)
(* failure: the computation fails only for an error some function raised.  *)
(***************************************************************************)
NothingToFind ==
    /\ pathconfig.home = NULL
    /\ ~HasBuildMarker
    /\ ~HasLandmark(macros.PREFIX)
    /\ \A C \in AnchorAndAncestors : ~HasLandmark(C)

C6_NotFoundFallsBack ==
    NothingToFind =>
        /\ PrefixSearched =>
             /\ prefix = DirJoin(macros.PREFIX, LibPython)
             /\ calculate.prefix_found = 0
             /\ ("prefix" \in Range(stderr)) <=> (config.pathconfig_warnings = 1)
        /\ \A r \in raised : r.stage = "prefix" => r.kind = "pathlen"
        /\ (Done /\ raised = {}) => status = "ok"

C6_Witness ==
    /\ Succeeded
    /\ NothingToFind
    /\ argv0_path = P_exe_dir
    /\ config.pathconfig_warnings = 1
    /\ prefix = <<"/","u","s","r","/","l","o","c","a","l","/","l","i","b","/","p","y","t","h","o","n","3",".","9">>
    /\ "prefix" \in Range(stderr)

(***************************************************************************)
(* C7, as claimed: with no home and no build-tree match, if the anchor     *)
(* directory or any directory above it (the root included) has the         *)
(* landmark, the outcome is installed and the output prefix is the deepest *)
(* such directory.                                                         *)
(***************************************************************************)
InstalledCase(Cs) ==
    /\ Succeeded
    /\ pathconfig.home = NULL
    /\ entry.prefix = NULL
    /\ ~BuildTreeMatch
    /\ Cs # {}

WithLandmark(Cs) == {C \in Cs : HasLandmark(C)}

C7_AnyAncestor ==
    LET Cs == WithLandmark(AnchorAndAncestors)
    IN  InstalledCase(Cs) =>
            /\ calculate.prefix_found = 1
            /\ pathconfig.prefix = Longest(Cs)

(***************************************************************************)
(* C7, amended: the same for the anchor directory and the directories      *)
(* above it other than the root, which the walk never tries.               *)
(***************************************************************************)
C7_AncestorBelowRoot ==
    LET Cs == WithLandmark(AnchorAndAncestors \ {separator})
    IN  InstalledCase(Cs) =>
            /\ calculate.prefix_found = 1
            /\ pathconfig.prefix = Longest(Cs)

C7_Witness ==
    /\ Succeeded
    /\ argv0_path = <<"/","o","p","t","/","r","u","n","t","i","m","e","/","b","i","n">>
    /\ InstalledCase(WithLandmark(AnchorAndAncestors \ {separator}))
    /\ HasLandmark(<<"/","o","p","t","/","r","u","n","t","i","m","e">>) /\ HasLandmark(<<"/","o","p","t">>)
    /\ pathconfig.prefix = <<"/","o","p","t","/","r","u","n","t","i","m","e">>

(***************************************************************************)
(* C8, as claimed: in a build tree (build marker in the anchor directory,  *)
(* landmark in <anchor>/Lib) the prefix is <anchor> and the outcome is     *)
(* build tree.  Both readings of "the prefix" are allowed: the search      *)
(* result and the output field.                                            *)
(***************************************************************************)
BuildTreeCase ==
    /\ pathconfig.home = NULL
    /\ BuildTreeMatch
    /\ HasBuildLandmark(EMPTY)

C8_BuildTreePrefixIsAnchor ==
    (Succeeded /\ entry.prefix = NULL /\ BuildTreeCase) =>
        /\ calculate.prefix_found = -1
        /\ prefix = argv0_path \/ pathconfig.prefix = argv0_path

(***************************************************************************)
(* C8, amended: in a build tree the prefix search result is                *)
(* <anchor>/<VPATH>/Lib, not shortened, with outcome build tree; the       *)
(* output prefix field is PREFIX.                                          *)
(***************************************************************************)
C8_BuildTreePrefix ==
    BuildTreeCase =>
        /\ PrefixSearched =>
             /\ calculate.prefix_found = -1
             /\ prefix = BuildLib(vpath)
        /\ (Succeeded /\ entry.prefix = NULL) =>
             pathconfig.prefix = macros.PREFIX

C8_Witness ==
    /\ Succeeded
    /\ BuildTreeCase
    /\ entry.prefix = NULL
    /\ HasLandmark(<<"/","o","p","t","/","r","u","n","t","i","m","e">>)
    /\ calculate.prefix_found = -1
    /\ prefix = <<"/","o","p","t","/","r","u","n","t","i","m","e","/","b","i","n","/","L","i","b">>
    /\ pathconfig.prefix = <<"/","u","s","r","/","l","o","c","a","l">>

(***************************************************************************)
(* The places of pyvenv.cfg.  anchor is the directory of the executable.   *)
(***************************************************************************)
\* a directory name without its last segment
Parent(dir) ==
    LET segs == Split(dir, SEP)
    IN  Join(Take(segs, Len(segs) - 1), SEP)

CfgInAnchor == DirJoin(anchor, S_pyvenv_cfg)
CfgInParent == DirJoin(Parent(anchor), S_pyvenv_cfg)
CfgInGrandparent == DirJoin(Parent(Parent(anchor)), S_pyvenv_cfg)

\* the value of home in the first of the two files that can be opened
CfgHome ==
    IF _Py_wfopen(fs, CfgInAnchor)
    THEN _Py_FindEnvConfigValue(fs, CfgInAnchor, MAXPATHLEN + 1)
    ELSE IF _Py_wfopen(fs, CfgInParent)
    THEN _Py_FindEnvConfigValue(fs, CfgInParent, MAXPATHLEN + 1)
    ELSE NULL

\* calculate_read_pyenv has returned successfully
PyenvRead ==
    pc = "calculate_prefix" \/ PrefixSearched

StartsWith(s, p) == Len(s) >= Len(p) /\ Take(s, Len(p)) = p

(***************************************************************************)
(* C9: a home key in pyvenv.cfg replaces argv0_path, and the prefix and    *)
(* exec-prefix searches then query no path in the directory of the         *)
(* executable: their build-marker checks and walks start from the value.   *)
(* Without the file or the key argv0_path stays as it was, and the stage   *)
(* is no failure.                                                          *)
(***************************************************************************)
SearchLog == StageLog("prefix") \o StageLog("exec_prefix")

C9_PyvenvHomeReplacesAnchor ==
    /\ PyenvRead =>
         IF CfgHome # NULL
         THEN /\ argv0_path = CfgHome
              /\ \A e \in Range(SearchLog) : ~StartsWith(e.path, anchor)
              /\ StageLog("prefix") # <<>> =>
                   StageLog("prefix")[1].path = DirJoin(CfgHome, S_SetupLocal)
              /\ StageLog("exec_prefix") # <<>> =>
                   StageLog("exec_prefix")[1].path =
                       DirJoin(CfgHome, S_pybuilddir_txt)
         ELSE argv0_path = anchor
    /\ \A r \in raised : r.stage = "pyenv" => r.kind = "pathlen"

C9_Witness ==
    /\ Succeeded
    /\ anchor = <<"/","s","r","v","/","v","e","n","v","/","b","i","n">>
    /\ CfgHome = <<"/","o","p","t","/","r","u","n","t","i","m","e","/","b","i","n">>
    /\ pathconfig.home = NULL
    /\ Len(StageLog("prefix")) > 1
    /\ Len(StageLog("exec_prefix")) > 1
    /\ pathconfig.prefix = <<"/","o","p","t","/","r","u","n","t","i","m","e">>

(***************************************************************************)
(* C10, as claimed: pyvenv.cfg is opened in the anchor directory and, only *)
(* if that fails, in the grandparent of the anchor directory; nowhere else.*)
(***************************************************************************)
PyenvLog(second) ==
    IF _Py_wfopen(fs, CfgInAnchor)
    THEN <<[stage |-> "pyenv", op |-> "fopen", path |-> CfgInAnchor]>>
    ELSE <<[stage |-> "pyenv", op |-> "fopen", path |-> CfgInAnchor],
           [stage |-> "pyenv", op |-> "fopen", path |-> second]>>

C10_AnchorThenGrandparent ==
    /\ PyenvRead => StageLog("pyenv") = PyenvLog(CfgInGrandparent)
    /\ \A e \in Range(StageLog("pyenv")) :
         e.op = "fopen" /\ e.path \in {CfgInAnchor, CfgInGrandparent}

(***************************************************************************)
(* C10, amended: ... and, only if that fails, in the parent of the anchor  *)
(* directory (the anchor directory without its last segment); nowhere else.*)
(***************************************************************************)
C10_AnchorThenParent ==
    /\ PyenvRead => StageLog("pyenv") = PyenvLog(CfgInParent)
    /\ \A e \in Range(StageLog("pyenv")) :
         e.op = "fopen" /\ e.path \in {CfgInAnchor, CfgInParent}

C10_Witness ==
    /\ pc = "calculate_prefix"
    /\ anchor = <<"/","s","r","v","/","v","e","n","v","/","b","i","n">>
    /\ ~_Py_wfopen(fs, CfgInAnchor)
    /\ _Py_wfopen(fs, CfgInGrandparent)
    /\ StageLog("pyenv")[2].path = <<"/","s","r","v","/","v","e","n","v","/","p","y","v","e","n","v",".","c","f","g">>
    /\ argv0_path = <<"/","o","p","t","/","r","u","n","t","i","m","e","/","b","i","n">>

(***************************************************************************)
(* The executable locator: the entries of PATH and what they give.         *)
(***************************************************************************)
HasSeparator(name) == wcschr(name, SEP) > 0
PathEntries ==
    IF environ.PATH = NULL THEN <<>> ELSE Split(environ.PATH, DELIM)
Candidate(i) == DirJoin(PathEntries[i], pathconfig.program_name)
Matches == {i \in 1..Len(PathEntries) : isxfile(fs, Candidate(i))}
FirstMatch == IF Matches = {} THEN 0 ELSE Min(Matches)
\* the entries tried: up to the first match, all of them without one
Tried == IF FirstMatch = 0 THEN Len(PathEntries) ELSE FirstMatch
TriedFit == \A i \in 1..Tried : Len(Candidate(i)) <= MAXPATHLEN
CandidateProbes ==
    [i \in 1..Tried |->
        [stage |-> "program", op |-> "isxfile", path |-> Candidate(i)]]
\* what calculate_program makes of the path found
Absolute(p) ==
    IF p = EMPTY \/ _Py_isabs(p) THEN p
    ELSE absolutize(p, MAXPATHLEN + 1, fs.cwd).path
\* calculate_program has stored program_full_path
ProgramLocated == writes["program_full_path"] = 1

C11_WitnessNoMatch ==
    /\ Succeeded
    /\ ~HasSeparator(pathconfig.program_name)
    /\ environ.PATH # NULL /\ FirstMatch = 0
    /\ pathconfig.program_full_path = EMPTY

(***************************************************************************)
(* C12: every path handed from one stage to the next (the full executable  *)
(* path, the anchor directory after symlink resolution and after the       *)
(* pyvenv.cfg override, the prefix and exec-prefix search results, the zip *)
(* path) is empty or an absolute path that fits a path buffer.             *)
(***************************************************************************)
AbsoluteOrEmpty(p) == p = EMPTY \/ (_Py_isabs(p) /\ Len(p) <= MAXPATHLEN)

C12_HandedPathsAbsolute ==
    /\ ProgramLocated => AbsoluteOrEmpty(pathconfig.program_full_path)
    /\ AbsoluteOrEmpty(anchor)
    /\ AbsoluteOrEmpty(argv0_path)
    /\ AbsoluteOrEmpty(prefix)
    /\ AbsoluteOrEmpty(exec_prefix)
    /\ AbsoluteOrEmpty(zip_path)

(***************************************************************************)
(* C13: a path that would be longer than a path buffer holds (MAXPATHLEN   *)
(* characters and the terminator) is never built: the operation returns    *)
(* the path-too-long error, no buffer holds more than MAXPATHLEN           *)
(* characters, and no result is a cut-off path.  Stated for the buffers of *)
(* calculate_path, the program name copy, the PATH entries of              *)
(* calculate_which and the content of pybuilddir.txt.                      *)
(***************************************************************************)
\* calculate_program has been called and has returned
ProgramStageOver ==
    /\ entry.program_full_path = NULL
    /\ pc \notin {"calculate_init", "calculate_program"}
    /\ \A r \in raised : r.stage # "calculate_init"

PathTooLong(stage) == [stage |-> stage, kind |-> "pathlen"] \in raised

BuilddirFile == DirJoin(argv0_path, S_pybuilddir_txt)
\* <argv0_path> / <the whole content of pybuilddir.txt>
BuilddirWhole ==
    LET content == BuilddirContent(fs, BuilddirFile)
    IN  IF _Py_isabs(content) THEN content ELSE DirJoin(argv0_path, content)

C13_BoundRespected ==
    /\ \A buf \in {argv0_path, prefix, exec_prefix, zip_path} :
         Len(buf) <= MAXPATHLEN
    /\ ProgramLocated => Len(pathconfig.program_full_path) <= MAXPATHLEN
    /\ (ProgramStageOver /\ HasSeparator(pathconfig.program_name)
        /\ Len(pathconfig.program_name) > MAXPATHLEN)
         => PathTooLong("program")
    /\ (ProgramStageOver /\ ~HasSeparator(pathconfig.program_name)
        /\ ~TriedFit)
         => PathTooLong("program")
    /\ (AfterExecPrefixSearch /\ pathconfig.home = NULL
        /\ isfile(fs, BuilddirFile))
         => /\ calculate.exec_prefix_found = -1
            /\ exec_prefix = BuilddirWhole

(***************************************************************************)
(* Symbolic links, as readlink(2) answers.                                 *)
(***************************************************************************)
IsLinkPath(p) == _Py_wreadlink(fs, p, MAXPATHLEN + 1) # NULL
\* where a link leads: an absolute target as it is, a relative target in
\* the directory the link is in
Hop(p) ==
    LET t == _Py_wreadlink(fs, p, MAXPATHLEN + 1)
    IN  IF _Py_isabs(t) THEN t ELSE DirJoin(Parent(p), t)
TooManyLinks == [stage |-> "argv0", kind |-> "symloop"] \in raised
IsChain(n) ==
    fs.links = Chain(n) /\ pathconfig.program_name = ChainLink(1)

(***************************************************************************)
(* C14: resolve_symlinks on a chain of 41 links returns the "maximum       *)
(* number of symbolic links reached" error; on a chain of 39 links it      *)
(* returns success with the final target, which is no link.  Each link is  *)
(* followed to its target if that is absolute, to the target in the link's *)
(* own directory if it is relative.                                        *)
(***************************************************************************)
C14_SymlinkChain ==
    LET lg == StageLog("argv0")
        last == lg[Len(lg)].path
    IN  lg # <<>> =>
          /\ lg[1].path = pathconfig.program_full_path
          /\ \A i \in 1..(Len(lg) - 1) :
               /\ IsLinkPath(lg[i].path)
               /\ lg[i + 1].path = Hop(lg[i].path)
          /\ IF IsLinkPath(last)
             THEN TooManyLinks /\ Len(lg) >= 40
             ELSE ~TooManyLinks /\ anchor = Parent(last)
          /\ IsChain(41) => TooManyLinks
          /\ IsChain(39) =>
               /\ ~TooManyLinks
               /\ Len(lg) = 40
               /\ last = P_exe
               /\ anchor = P_exe_dir

C14_Witness ==
    /\ IsChain(39)
    /\ pc = "calculate_read_pyenv"
    /\ Len(StageLog("argv0")) = 40
    /\ StageLog("argv0")[2].path = <<"/","c","/","0","2">>
    /\ StageLog("argv0")[3].path = <<"/","c","/","0","3">>
    /\ anchor = P_exe_dir

C14_WitnessTooMany ==
    /\ IsChain(41)
    /\ pc = "calculate_read_pyenv"
    /\ TooManyLinks

(***************************************************************************)
(* The ancestor walks, as the log has them.                                *)
(***************************************************************************)
EndsWith(s, t) == Len(s) >= Len(t) /\ Drop(s, Len(s) - Len(t)) = t
\* the number of segments of argv0_path
AnchorDepth ==
    Len(SelectSeq(Split(argv0_path, SEP), LAMBDA x : x # EMPTY))
\* the probes of a walk: those of the candidates, without the last one,
\* which is the probe of the compiled default
LandmarkProbes ==
    SelectSeq(StageLog("prefix"), LAMBDA e : EndsWith(e.path, LANDMARK))
DynloadProbes ==
    SelectSeq(StageLog("exec_prefix"), LAMBDA e : e.op = "isdir")
WalkProbes(probes) == Take(probes, Len(probes) - 1)
StrictlyShorter(probes) ==
    \A i \in 1..(Len(probes) - 1) :
        Len(probes[i + 1].path) < Len(probes[i].path)

DynloadDir(C) == DirJoin(DirJoin(C, LibPython), S_lib_dynload)
NoDynloadToFind ==
    /\ pathconfig.home = NULL
    /\ ~isfile(fs, DirJoin(argv0_path, S_pybuilddir_txt))
    /\ ~isdir(fs, DynloadDir(macros.EXEC_PREFIX))
    /\ \A C \in AnchorAndAncestors : ~isdir(fs, DynloadDir(C))

(***************************************************************************)
(* C15: with an anchor directory N segments deep and nothing to find, the  *)
(* ancestor walk of search_for_prefix, and that of search_for_exec_prefix, *)
(* probes exactly N candidates before the compiled default, each candidate *)
(* strictly shorter than the one before, none twice.                       *)
(***************************************************************************)
C15_WalkProbesOncePerLevel ==
    /\ (NothingToFind /\ PrefixSearched) =>
         /\ Len(WalkProbes(LandmarkProbes)) = AnchorDepth
         /\ StrictlyShorter(WalkProbes(LandmarkProbes))
    /\ (NoDynloadToFind /\ AfterExecPrefixSearch) =>
         /\ Len(WalkProbes(DynloadProbes)) = AnchorDepth
         /\ StrictlyShorter(WalkProbes(DynloadProbes))

(***************************************************************************)
(* joinpath on the directories and the components of the computation.      *)
(***************************************************************************)
EndsInSeparator(s) == s # EMPTY /\ s[Len(s)] = SEP
StripSeparator(s) == IF EndsInSeparator(s) THEN Take(s, Len(s) - 1) ELSE s
\* bases that do not end in a separator
JoinBases ==
    {B \in {StripSeparator(x) :
                x \in Range(PathEntries)
                      \cup {argv0_path, prefix, exec_prefix, macros.PREFIX}} :
        ~EndsInSeparator(B)}
JoinComponents ==
    {pathconfig.program_name, LibPython, LANDMARK, S_pyvenv_cfg,
     S_SetupLocal, macros.PREFIX, P_exe}
RelativeComponents == {C \in JoinComponents : ~_Py_isabs(C)}
AbsoluteComponents ==
    {A \in JoinComponents : _Py_isabs(A) /\ Len(A) <= MAXPATHLEN}
JoinFits(B, C) == Len(B) + 1 + Len(C) <= MAXPATHLEN
Joined(p) == [status |-> "ok", path |-> p]
AbsoluteReplaces ==
    \A B \in JoinBases : \A A \in AbsoluteComponents :
        /\ joinpath(B, A, MAXPATHLEN + 1) = Joined(A)
        /\ joinpath(B \o separator, A, MAXPATHLEN + 1) = Joined(A)

(***************************************************************************)
(* C16, as claimed: for every base B that does not end in a separator and  *)
(* every relative component C that fits, joinpath(B + SEP, C) and          *)
(* joinpath(B, C) are both B + SEP + C; an absolute component replaces the *)
(* base.                                                                   *)
(***************************************************************************)
C16_JoinAnyBase ==
    /\ \A B \in JoinBases : \A C \in RelativeComponents :
         JoinFits(B, C) =>
           /\ joinpath(B \o separator, C, MAXPATHLEN + 1)
                = Joined(B \o separator \o C)
           /\ joinpath(B, C, MAXPATHLEN + 1) = Joined(B \o separator \o C)
    /\ AbsoluteReplaces

(***************************************************************************)
(* C16, amended: the same for every non-empty base B; with the empty base  *)
(* no separator is written, joinpath("", C) is C, while joinpath(SEP, C)   *)
(* is SEP + C.                                                             *)
(***************************************************************************)
C16_JoinNonEmptyBase ==
    /\ \A B \in JoinBases : \A C \in RelativeComponents :
         JoinFits(B, C) =>
           /\ joinpath(B \o separator, C, MAXPATHLEN + 1)
                = Joined(B \o separator \o C)
           /\ joinpath(B, C, MAXPATHLEN + 1) =
                IF B = EMPTY THEN Joined(C) ELSE Joined(B \o separator \o C)
    /\ AbsoluteReplaces

\* an entry of PATH that ends in a separator gave the executable
C16_Witness ==
    /\ ProgramLocated
    /\ ~HasSeparator(pathconfig.program_name)
    /\ environ.PATH = <<"/","o","p","t","/","r","u","n","t","i","m","e","/","b","i","n","/",":","/","u","s","r","/","b","i","n">>
    /\ P_exe_dir \in JoinBases
    /\ pathconfig.program_full_path = P_exe

(***************************************************************************)
(* C17: calculate_set_exec_prefix cuts exactly three trailing segments     *)
(* (lib/python<VERSION>/lib-dynload) off an installed search result        *)
(* (found > 0) and stores the rest, the separator if nothing is left.  A   *)
(* not-found search result is EXEC_PREFIX/lib/lib-dynload and is not       *)
(* shortened; a build-tree search result is not shortened either.          *)
(***************************************************************************)
WithoutSegments3(p) ==
    LET r == Parent(Parent(Parent(p)))
    IN  IF r = EMPTY THEN separator ELSE r

ExecPrefixNotFound ==
    /\ calculate.exec_prefix_found = 0
    /\ AfterExecPrefixSearch \/ (Succeeded /\ entry.exec_prefix = NULL)

SetExecPrefixStep ==
    /\ pc = "calculate_set_exec_prefix"
    /\ entry.exec_prefix = NULL
    /\ pc' = "done" /\ status' = "ok"

C17_ExecPrefixShortening ==
    /\ [](ExecPrefixNotFound =>
            exec_prefix = DirJoin(macros.EXEC_PREFIX, S_lib_lib_dynload))
    /\ [][SetExecPrefixStep =>
            IF calculate.exec_prefix_found > 0
            THEN /\ EndsWith(exec_prefix,
                             DirJoin(DirJoin(separator, LibPython),
                                     S_lib_dynload))
                 /\ exec_prefix' = WithoutSegments3(exec_prefix)
                 /\ pathconfig'.exec_prefix = exec_prefix'
            ELSE exec_prefix' = exec_prefix]_vars

C17_Witness ==
    /\ Succeeded
    /\ entry.exec_prefix = NULL
    /\ pathconfig.home = NULL
    /\ calculate.exec_prefix_found = 1
    /\ isdir(fs, <<"/","o","p","t","/","r","u","n","t","i","m","e","/","l","i","b","/","p","y","t","h","o","n","3",".","9","/","l","i","b","-","d","y","n","l","o","a","d">>)
    /\ pathconfig.exec_prefix = <<"/","o","p","t","/","r","u","n","t","i","m","e">>

(***************************************************************************)
(* The build-tree check of search_for_prefix, as the log has it.           *)
(***************************************************************************)
BuildLandmark == DirJoin(BuildLib(macros.VPATH), LANDMARK)
BuildProbed ==
    \E i \in DOMAIN StageLog("prefix") :
        StageLog("prefix")[i].path = BuildLandmark
\* the first landmark of the ancestor walk from an absolute argv0_path
FirstWalkLandmark == DirJoin(DirJoin(argv0_path, LibPython), LANDMARK)

(***************************************************************************)
(* C18, as claimed: <anchor>/<VPATH>/Lib is tested for the landmark only   *)
(* if the build marker is in the anchor directory and VPATH is not empty.  *)
(***************************************************************************)
C18_BuildCheckNeedsVpath ==
    BuildProbed =>
        /\ pathconfig.home = NULL
        /\ HasBuildMarker
        /\ macros.VPATH # EMPTY

(***************************************************************************)
(* C18, amended: <anchor>/<VPATH>/Lib is tested for the landmark exactly   *)
(* if the build marker is in the anchor directory and VPATH could be       *)
(* decoded, an empty VPATH included; otherwise the search goes from the    *)
(* build-marker test straight to the ancestor walk.                        *)
(***************************************************************************)
C18_BuildCheckNeedsMarker ==
    /\ BuildProbed =>
         /\ pathconfig.home = NULL
         /\ HasBuildMarker
         /\ vpath # NULL
    /\ (PrefixSearched /\ pathconfig.home = NULL) =>
         IF HasBuildMarker /\ vpath # NULL
         THEN BuildProbed
         ELSE _Py_isabs(argv0_path) =>
                StageLog("prefix")[2].path = FirstWalkLandmark

C18_Witness ==
    /\ PrefixSearched
    /\ pathconfig.home = NULL
    /\ HasBuildMarker
    /\ macros.VPATH = EMPTY /\ vpath = EMPTY
    /\ BuildProbed
    /\ calculate.prefix_found = -1

\* the marker is there and VPATH could not be decoded
C18_WitnessNoVpath ==
    /\ PrefixSearched
    /\ HasBuildMarker
    /\ vpath = NULL
    /\ HasBuildLandmark(macros.VPATH)
    /\ ~BuildProbed

(***************************************************************************)
(* C19: a file opened by calculate_read_pyenv (pyvenv.cfg) or by           *)
(* calculate_pybuilddir (pybuilddir.txt) is closed before that function    *)
(* returns, whatever it returns: no FILE is open between two steps of      *)
(* calculate_path, nor when _PyPathConfig_Calculate returns.               *)
(***************************************************************************)
C19_HandlesClosed == handles = 0

Opened(stage, name) ==
    \E e \in Range(StageLog(stage)) :
        e.op = "fopen" /\ EndsWith(e.path, name) /\ _Py_wfopen(fs, e.path)

\* both files were opened, and the content of pybuilddir.txt was not decoded
C19_Witness ==
    /\ Done
    /\ status = "decode"
    /\ Opened("pyenv", S_pyvenv_cfg)
    /\ Opened("exec_prefix", S_pybuilddir_txt)
    /\ handles = 0

(***************************************************************************)
(* C20: with an absolute program_full_path and an absolute home (in        *)
(* pathconfig or in pyvenv.cfg), every path that is opened, tested or read *)
(* as a link from calculate_argv0_path on is absolute, so that nothing     *)
(* depends on the working directory; an executable in the root directory   *)
(* or one level below it included.                                         *)
(***************************************************************************)
AbsoluteHome ==
    pathconfig.home # NULL =>
        /\ _Py_isabs(HomePrefixPart)
        /\ _Py_isabs(HomeExecPart)

C20_CwdIndependent ==
    (_Py_isabs(pathconfig.program_full_path) /\ AbsoluteHome) =>
        \A e \in Range(log) : e.stage # "program" => _Py_isabs(e.path)

(***************************************************************************)
(* C21: when the prefix search found an installed tree (prefix_found > 0)  *)
(* and the caller did not set the prefix field, the zip path is the output *)
(* prefix field joined with lib/python<XY>.zip, and it is absolute; this   *)
(* includes an installation in the root directory, whose search result is  *)
(* /lib/python<VERSION>.                                                   *)
(***************************************************************************)
ZipName == <<"l","i","b","/","p","y","t","h","o","n">> \o <<VERSION[1], VERSION[3]>> \o <<".","z","i","p">>

\* calculate_set_prefix has assigned the prefix field from an installed tree
InstalledPrefixReported ==
    /\ entry.prefix = NULL
    /\ writes["prefix"] = 1
    /\ calculate.prefix_found > 0

C21_ZipPathUnderPrefix ==
    InstalledPrefixReported =>
        /\ zip_path = DirJoin(pathconfig.prefix, ZipName)
        /\ _Py_isabs(zip_path)

(***************************************************************************)
(* C22: calculate_module_search_path never writes more characters to the   *)
(* buffer it allocated, the terminator included, than the size bufsz it    *)
(* computed beforehand: for pythonpath_env set or unset, for any list of   *)
(* default entries (empty, relative, absolute), for any prefix (empty or   *)
(* ending in a separator too), zip path and exec-prefix.                   *)
(***************************************************************************)
\* calculate_module_search_path has filled the buffer; prefix, exec_prefix
\* and zip_path still hold the arguments it was called with
SearchPathBuilt ==
    /\ pc = "calculate_set_prefix"
    /\ writes["module_search_path"] = 1

\* the characters written: the buffer is only appended to, so the last
\* one written is the terminator of the final string
Written == Len(pathconfig.module_search_path) + 1
Allocated == msp_bufsz(calculate, prefix, exec_prefix, zip_path)

C22_FillFitsBufsz == SearchPathBuilt => Written <= Allocated

\* the buffer is filled to the last character: PYTHONPATH is set, and a
\* relative default entry lies under a prefix without trailing separator
C22_Witness ==
    /\ SearchPathBuilt
    /\ calculate.pythonpath_env \notin {NULL, EMPTY}
    /\ calculate.pythonpath = <<"l","i","b","-","d","y","n","l","o","a","d">>
    /\ prefix = <<"/","u","s","r","/","l","o","c","a","l">>
    /\ Written = Allocated

\* an empty prefix and a list with empty entries leave room in the buffer
C22_WitnessSlack ==
    /\ SearchPathBuilt
    /\ prefix = EMPTY
    /\ calculate.pythonpath = <<":","a",":",":","/","b",":">>
    /\ Written < Allocated

(***************************************************************************)
(* The passes of the loops.                                                *)
(***************************************************************************)
Entries(p) == Len(Split(p, DELIM))
\* a pass of calculate_which that goes on leaves one entry less of PATH
WhichConsumes ==
    WhichPass =>
        /\ passes' <= Entries(environ.PATH)
        /\ \/ pc' = "done"
           \/ /\ Entries(path_env') = Entries(path_env) - 1
              /\ Len(path_env') < Len(path_env)
\* a pass of resolve_symlinks that goes on has read one more link, and
\* the pass that reads the 40th link is the last
ResolveCounts ==
    ResolvePass =>
        /\ passes' <= MAXSYMLINKS
        /\ links' <= passes'
        /\ pc' = pc => links' = links + 1
        /\ links' >= MAXSYMLINKS => (pc' = "done" /\ status' = "symloop")
\* where both walks start
WalkStart == copy_absolute(argv0_path, MAXPATHLEN + 1, fs.cwd).path
\* a pass of a walk that goes on leaves a shorter candidate, not empty;
\* the test of the loop ends the walk when the candidate is empty
WalkShortens(pass, buf, found) ==
    pass =>
        /\ passes' <= Len(WalkStart) + 1
        /\ pc' = pc => (Len(buf') < Len(buf) /\ buf' # EMPTY)
        /\ (pc' = "done" /\ status' = "ok" /\ found' = 0) => buf' = EMPTY

(***************************************************************************)
(* C23: _PyPathConfig_Calculate terminates with a success or a failure     *)
(* status for every file system and every input (cyclic symbolic links, an *)
(* empty or long PATH, an empty, relative or separator-terminated anchor,  *)
(* no working directory): every loop ends; the PATH loop consumes one      *)
(* entry per pass, the symbolic link loop stops after at most 40 links     *)
(* read, and each ancestor walk goes to a strictly shorter candidate on    *)
(* every pass until the candidate is empty.                                *)
(***************************************************************************)
C23_Terminates ==
    /\ <>(Done /\ status # "pending")
    /\ [](links <= MAXSYMLINKS)
    /\ [][WhichConsumes]_vars
    /\ [][ResolveCounts]_vars
    /\ [][WalkShortens(PrefixWalkPass, prefix, calculate.prefix_found)]_vars
    /\ [][WalkShortens(ExecPrefixWalkPass, exec_prefix,
                       calculate.exec_prefix_found)]_vars

\* a symbolic link to itself: the loop is left with the error when the
\* 40th link is read
C23_Witness ==
    /\ Done
    /\ \E l \in fs.links : Hop(l[1]) = l[1]
    /\ pathconfig.program_full_path = P_usr_bin_python
    /\ links = MAXSYMLINKS
    /\ passes = MAXSYMLINKS
    /\ status = "symloop"

\* the walk from an anchor that ends in a separator, from an empty anchor
\* and from a relative anchor without a working directory went down to the
\* empty candidate
C23_WitnessWalks ==
    /\ Done
    /\ status = "ok"
    /\ calculate.prefix_found = 0
    /\ calculate.exec_prefix_found = 0
    /\ passes >= 1
    /\ \/ EndsInSeparator(argv0_path) /\ passes >= 4
       \/ argv0_path = EMPTY /\ passes >= 3
       \/ (argv0_path = <<"b","i","n">> /\ fs.cwd = NULL)

\* an empty PATH is one empty entry; the last of eight entries was tried
C23_WitnessPath ==
    /\ Done
    /\ status = "ok"
    /\ path_env = IF environ.PATH = EMPTY THEN EMPTY ELSE <<"/","h">>
    /\ passes = Entries(environ.PATH)
    /\ pathconfig.program_full_path = NULL

====
